---- MODULE Spec2Model ----
(***************************************************************************)
(* SKIPPER, Selective Audio Detection and Filter (skipper.c, skipper.h,    *)
(* tensor-gen.c): the per-frame loop of the filter (output ring, results   *)
(* ring, MUSIC/TALK state machine, transition splice, flush, keep-alive,   *)
(* final drain) and the tensor container.                                  *)
(*                                                                         *)
(* The audio analysis itself (biquads, level ring, analyze_window) is      *)
(* floating point; in the frame loop its result, the tensor value looked   *)
(* up for each window, is an input: the programme on stdin is made of      *)
(* segments, each yielding the same lookup value for a number of windows.  *)
(* analyze_window is followed on its own over windows of levels held as    *)
(* whole half decibels, the streamers over single buffers, and tensor-gen  *)
(* over a small tensor.                                                    *)
(***************************************************************************)
EXTENDS Integers, Sequences, FiniteSets, TLC

(***************************************************************************)
(* Program constants (skipper.c)                                           *)
(***************************************************************************)
OUTPUT_AUDIO == 0
OUTPUT_MONO == 1

SKIP_NOTHING == 0
SKIP_TALK == 1
SKIP_MUSIC == 2
SKIP_EVERYTHING == 3

MODE_NOTHING == 0
MODE_MUSIC == 1
MODE_TALK == -1

WINDOW_SECONDS == 5
AVERAGE_SECONDS == 5
STEP_MSECS == 200
AVERAGE_COUNT == (AVERAGE_SECONDS * 1000) \div STEP_MSECS

CROSSFADE_SECS == 2
MIN_TALK_SECS == 10
MIN_MUSIC_SECS == 20
MAX_PEND_SECS == 60
OUTPUT_SECONDS == 120
FLUSH_SECONDS == 60

(***************************************************************************)
(* Bounds of the model                                                     *)
(***************************************************************************)
\* frames per second of the modelled stream (the program takes 11025..96000)
sample_rate == 10
\* the input ends no later than this many frames
MaxSamples == 1500
\* windows in a short and in a long segment of a generated programme
ShortSegment == 20
LongSegment == 110
\* a generated programme has at most this many segments
MaxSegments == 5

(***************************************************************************)
(* Inputs                                                                  *)
(***************************************************************************)
\* what the tensor lookup of a window can return (talk-like, music-like)
LookupValues == {-99, 99}
SegmentWindows == {ShortSegment, LongSegment}

\* generated programmes: up to MaxSegments segments that alternate between
\* talk-like and music-like, each short or long
IsGenerated(p) ==
    /\ Len(p) <= MaxSegments
    /\ \A i \in 1..Len(p) :
        /\ p[i][1] \in LookupValues
        /\ p[i][2] \in SegmentWindows
        /\ i > 1 => p[i][1] # p[i - 1][1]

\* the programme that keeps both counters from being 0 together for longest:
\* music until MUSIC is all but detected, talk until TALK is detected and the
\* music counter has run down, lookup values that change with every window until
\* the pending detection is all but cancelled, then music until MUSIC is detected
LongestPending ==
    <<<<99, 110>>, <<-99, 134>>>>
        \o [i \in 1..177 |-> <<IF i % 2 = 1 THEN -99 ELSE 99, 1>>]
        \o <<<<99, 300>>>>

\* the programme that puts off the first confirmation for longest: talk for all
\* but one of the steps of a TALK detection, then music
LatestFirst == <<<<-99, 61>>, <<99, 112>>, <<-99, 60>>>>

\* music throughout, talk throughout: one mode is confirmed and no other detection
\* ever begins
Steady == {<<<<99, 730>>>>, <<<<-99, 730>>>>}

\* programmes with long pending detections, steady stretches and late changes
ScriptedProgrammes ==
    Steady \cup
    { LongestPending, LatestFirst,
      <<<<-99, 30>>, <<99, 48>>, <<-99, 48>>, <<99, 48>>, <<-99, 48>>, <<99, 60>>,
        <<-99, 60>>, <<99, 110>>>>,
      <<<<99, 30>>, <<-99, 30>>, <<99, 110>>, <<-99, 45>>, <<99, 45>>, <<-99, 45>>,
        <<99, 45>>, <<-99, 110>>>>,
      <<<<99, 30>>, <<-99, 30>>, <<99, 110>>, <<-99, 30>>, <<99, 30>>, <<-99, 30>>,
        <<99, 30>>, <<-99, 60>>, <<99, 30>>>>,
      <<<<-99, 110>>, <<99, 60>>, <<-99, 110>>, <<99, 48>>, <<-99, 45>>, <<99, 60>>,
        <<-99, 60>>, <<99, 110>>>>,
      <<<<99, 110>>, <<-99, 60>>, <<99, 110>>, <<-99, 48>>, <<99, 45>>, <<-99, 60>>,
        <<99, 60>>, <<-99, 110>>>>,
      <<<<99, 320>>, <<-99, 20>>, <<99, 320>>>>,
      <<<<-99, 320>>, <<99, 20>>, <<-99, 320>>>> }

IsScripted(p) ==
    \E q \in ScriptedProgrammes : Len(p) <= Len(q) /\ SubSeq(q, 1, Len(p)) = p

\* the beginnings of the programmes that stdin can carry
IsProgramme(p) == IsGenerated(p) \/ IsScripted(p)

ScriptedWindows == UNION {{q[i][2] : i \in 1..Len(q)} : q \in ScriptedProgrammes}

\* the 16-bit samples on stdin: frame n, channel c (0 = left, 1 = right)
PcmTable == <<32767, -32768, 12345, -1, 0, -20000, 777>>
InputSample(n, c) == PcmTable[((2 * n + c) % Len(PcmTable)) + 1]

(***************************************************************************)
(* C arithmetic                                                            *)
(***************************************************************************)
\* x / y of C for y > 0: the quotient truncated toward zero
CDiv(x, y) == IF x >= 0 THEN x \div y ELSE -((-x) \div y)

\* conversion of an int to int16_t
ToInt16(x) == ((x + 32768) % 65536) - 32768

\* saturation to int16_t
Clamp16(sum) == IF sum > 32767 THEN 32767 ELSE IF sum < -32768 THEN -32768 ELSE sum

RECURSIVE SeqSum(_)
SeqSum(q) == IF q = <<>> THEN 0 ELSE Head(q) + SeqSum(Tail(q))

(***************************************************************************)
(* Buffer sizes computed in main                                           *)
(***************************************************************************)
step_samples == (STEP_MSECS * sample_rate) \div 1000
level_buff_len == WINDOW_SECONDS * sample_rate
output_buff_len == OUTPUT_SECONDS * sample_rate
crossfade_buff_len == CROSSFADE_SECS * sample_rate

(***************************************************************************)
(* The dither generator                                                    *)
(***************************************************************************)
LEVEL_WIN_MS == 50
ring_buff_len == (sample_rate * LEVEL_WIN_MS + 500) \div 1000

\* a uint32_t as its high and its low 16 bits
RandomSeed == <<12609, 22822>>          \* 0x31415926

\* x << 4, x - y and x ^ 1 modulo 2^32
ShiftLeft4(x) == <<(x[1] * 16 + x[2] \div 4096) % 65536, (x[2] * 16) % 65536>>
Subtract32(x, y) ==
    LET low == x[2] - y[2]
        high == x[1] - y[1] - (IF low < 0 THEN 1 ELSE 0)
    IN  <<high % 65536, low % 65536>>
XorOne(x) == <<x[1], IF x[2] % 2 = 0 THEN x[2] + 1 ELSE x[2] - 1>>

\* the generator without the exclusive or
NextRandomPlain(x) == Subtract32(ShiftLeft4(x), x)

\* random = ((random << 4) - random) ^ 1
NextRandom(x) == XorOne(Subtract32(ShiftLeft4(x), x))

\* random after the loop that fills the first n slots of ring_buffer
RECURSIVE RingInit(_, _)
RingInit(x, n) == IF n = 0 THEN x ELSE RingInit(NextRandom(x), n - 1)

VARIABLES
    pc,                     \* "loop", "done", "abort_transition", "abort_full"
    skip_mode, keepalive, threshold, channels, left_output, right_output,
    num_samples, level_buffer_index, output_buffer_index, num_windows,
    results_buffer,         \* the results_buffer_count valid entries
    current_mode, music_up_counter, talk_up_counter, pend_up_counter,
    transition_sample, confirmed_sample, samples_discarded, samples_written,
    output_buffer,          \* the 2 * output_buffer_index valid samples
    crossfade_buffer,       \* 2 * crossfade_buff_len samples
    stdout,                 \* every sample written so far
    report,                 \* what the last frame did (the -v messages)
    run,                    \* the tendency of the last step and how long it has lasted
    trace,                  \* what each counter latched when it last rose from 0, and
                            \* the frames since the last keep-alive of a quiet skip
    segment_value, segment_left, segments_done,
    gen_tensor,             \* the tensor tensor-gen has built
    tensor_file,            \* the bytes of the tensor file
    file_changed,           \* the file is no longer what tensor-gen wrote
    tensor,                 \* the tensor of the filter
    load_result,            \* what loading the tensor returned, -1 before it
    result,                 \* an analysis result to look up
    tensor_index,           \* the indices analysis_result_to_tensor_index gives for it
    tensor_pointer,         \* the cell analysis_result_to_tensor_pointer gives for it
    fade_input,             \* samples to fade
    faded_out, faded_in,    \* what fade_out and fade_in make of them
    files,                  \* the two files of analysis results given to tensor-gen
    alternate,              \* tensor-gen -a
    gen_dimensions,         \* tensor-gen -d<n>, 0 without it (-d4 does what 0 does)
    dist,                   \* dist1 and dist2 of tensor-gen
    window_count,           \* window_count1 and window_count2
    passes,                 \* passes of the border-fill loop so far
    trained,                \* per file, the record numbers added to its histogram
    tested,                 \* per file, the record numbers counted by the self-test
    hits,                   \* per file, file1_hits and file2_hits of the self-test
    random,                 \* the state of the dither generator
    streamer,               \* a streamer under read_buff or write_buff, and what was asked of it
    levels,                 \* the level window given to analyze_window
    analysis                \* the locals of analyze_window and its result

optvars == <<skip_mode, keepalive, threshold, channels, left_output, right_output>>
envvars == <<segment_value, segment_left, segments_done>>
tensorvars == <<gen_tensor, tensor_file, file_changed, tensor, load_result>>
lookupvars == <<result, tensor_index, tensor_pointer>>
fadevars == <<fade_input, faded_out, faded_in>>
genvars == <<files, alternate, gen_dimensions, dist, window_count, passes, trained, tested, hits>>
auxvars == <<streamer, levels, analysis>>
sidevars == <<lookupvars, fadevars, genvars, auxvars>>
vars == <<pc, skip_mode, keepalive, threshold, channels, left_output, right_output,
          num_samples, level_buffer_index, output_buffer_index, num_windows,
          results_buffer, current_mode, music_up_counter, talk_up_counter,
          pend_up_counter, transition_sample, confirmed_sample, samples_discarded,
          samples_written, output_buffer, crossfade_buffer, stdout, report, run, trace,
          segment_value, segment_left, segments_done,
          gen_tensor, tensor_file, file_changed, tensor, load_result,
          result, tensor_index, tensor_pointer, fade_input, faded_out, faded_in,
          files, alternate, gen_dimensions, dist, window_count, passes, trained, tested, hits, random,
          streamer, levels, analysis>>

results_buffer_count == Len(results_buffer)

(***************************************************************************)
(* fade_out, fade_in                                                       *)
(***************************************************************************)
\* fade_out leaving the samples as they are
fade_out_flat(samples) == samples

\* sample i (from 0) of total_samples is scaled by (total_samples - 1 - i) / total_samples
fade_out(samples) ==
    [i \in 1..Len(samples) |-> CDiv(samples[i] * (Len(samples) - i), Len(samples))]

\* fade_in starting from silence: sample i (from 0) scaled by i / total_samples
fade_in_from_zero(samples) ==
    [i \in 1..Len(samples) |-> CDiv(samples[i] * (i - 1), Len(samples))]

\* sample i (from 0) of total_samples is scaled by (i + 1) / total_samples
fade_in(samples) ==
    [i \in 1..Len(samples) |-> CDiv(samples[i] * i, Len(samples))]

\* the first n entries of a buffer, and what follows them
Take(q, n) == SubSeq(q, 1, n)
Drop(q, n) == SubSeq(q, n + 1, Len(q))

(***************************************************************************)
(* One frame into the output ring                                          *)
(***************************************************************************)
\* input_buffer [j * channels] and input_buffer [j * channels + channels - 1]
InLeft(n) == InputSample(n, 0)
InRight(n) == InputSample(n, channels - 1)

LeftOut(n) ==
    IF left_output = OUTPUT_AUDIO THEN InLeft(n) ELSE (InLeft(n) + InRight(n)) \div 2

RightOut(n) ==
    IF right_output = OUTPUT_AUDIO THEN InRight(n) ELSE (InLeft(n) + InRight(n)) \div 2

(***************************************************************************)
(* The results ring and the smoothed tendency                              *)
(***************************************************************************)
\* the sum taken over the ring once it holds AVERAGE_COUNT values
SmoothedSum(results) == SeqSum(results)

\* the ring left as it is once it is full
ShiftResultsKept(results) == results

\* memmove (results_buffer, results_buffer + 1, ...); results_buffer_count--
ShiftResults(results) == Tail(results)

\* tensor_value > threshold * results_buffer_count, the count read after the shift
MusicTendency(sum, results) == sum > threshold * Len(results)

(***************************************************************************)
(* The state machine: [mode, music_up, talk_up, pend_up, transition,       *)
(* detected, cancelled] after one step at input position n                 *)
(***************************************************************************)
\* twice the steps of MIN_MUSIC_SECS
MinMusicStepsTwice == 2 * ((MIN_MUSIC_SECS * 1000) \div STEP_MSECS)

MinMusicSteps == (MIN_MUSIC_SECS * 1000) \div STEP_MSECS
\* twice the steps of MIN_TALK_SECS
MinTalkStepsTwice == 2 * ((MIN_TALK_SECS * 1000) \div STEP_MSECS)

MinTalkSteps == (MIN_TALK_SECS * 1000) \div STEP_MSECS
MaxPendSteps == (MAX_PEND_SECS * 1000) \div STEP_MSECS

LatchedTransition(n) == n - ((WINDOW_SECONDS + AVERAGE_SECONDS) * sample_rate) \div 2

\* PendingStep cancelling only once pend_up_counter is past MAX_PEND
PendingStepLate(up, pend) ==
    IF up # 0 /\ up - 1 # 0
    THEN IF pend + 1 > MaxPendSteps
         THEN [up |-> 0, pend |-> pend + 1, cancelled |-> TRUE]
         ELSE [up |-> up - 1, pend |-> pend + 1, cancelled |-> FALSE]
    ELSE [up |-> IF up # 0 THEN up - 1 ELSE up, pend |-> pend, cancelled |-> FALSE]

\* the counter of the mode that is not the current one, on a step of the current tendency
PendingStep(up, pend) ==
    IF up # 0 /\ up - 1 # 0
    THEN IF pend + 1 >= MaxPendSteps
         THEN [up |-> 0, pend |-> pend + 1, cancelled |-> TRUE]
         ELSE [up |-> up - 1, pend |-> pend + 1, cancelled |-> FALSE]
    ELSE [up |-> IF up # 0 THEN up - 1 ELSE up, pend |-> pend, cancelled |-> FALSE]

\* RisingStep leaving the counter where the detection found it
RisingStepUnreset(up, pend, transition, n, min_steps) ==
    LET t == IF up = 0 THEN LatchedTransition(n) ELSE transition
        p == IF up = 0 THEN 0 ELSE pend
    IN  [up |-> up + 1,
         pend |-> p + 1,
         transition |-> t,
         detected |-> up + 1 = min_steps]

\* RisingStep comparing the counter before its increment
RisingStepLate(up, pend, transition, n, min_steps) ==
    LET t == IF up = 0 THEN LatchedTransition(n) ELSE transition
        p == IF up = 0 THEN 0 ELSE pend
    IN  [up |-> IF up = min_steps THEN 0 ELSE up + 1,
         pend |-> p + 1,
         transition |-> t,
         detected |-> up = min_steps]

\* the counter of the tendency seen, while the current mode is another one
RisingStep(up, pend, transition, n, min_steps) ==
    LET t == IF up = 0 THEN LatchedTransition(n) ELSE transition
        p == IF up = 0 THEN 0 ELSE pend
    IN  [up |-> IF up + 1 = min_steps THEN 0 ELSE up + 1,
         pend |-> p + 1,
         transition |-> t,
         detected |-> up + 1 = min_steps]

StateMachine(s, music, n) ==
    IF music
    THEN IF s.current_mode = MODE_MUSIC
         THEN LET r == PendingStep(s.talk_up_counter, s.pend_up_counter)
              IN  [s EXCEPT !.talk_up_counter = r.up, !.pend_up_counter = r.pend,
                            !.detected_mode = MODE_NOTHING, !.cancelled = r.cancelled]
         ELSE LET r == RisingStep(s.music_up_counter, s.pend_up_counter,
                                  s.transition_sample, n, MinMusicSteps)
              IN  [s EXCEPT !.music_up_counter = r.up, !.pend_up_counter = r.pend,
                            !.transition_sample = r.transition,
                            !.detected_mode = IF r.detected THEN MODE_MUSIC ELSE MODE_NOTHING,
                            !.cancelled = FALSE,
                            !.trace.music_latch = IF s.music_up_counter = 0
                                                  THEN LatchedTransition(n) ELSE @]
    ELSE IF s.current_mode = MODE_TALK
         THEN LET r == PendingStep(s.music_up_counter, s.pend_up_counter)
              IN  [s EXCEPT !.music_up_counter = r.up, !.pend_up_counter = r.pend,
                            !.detected_mode = MODE_NOTHING, !.cancelled = r.cancelled]
         ELSE LET r == RisingStep(s.talk_up_counter, s.pend_up_counter,
                                  s.transition_sample, n, MinTalkSteps)
              IN  [s EXCEPT !.talk_up_counter = r.up, !.pend_up_counter = r.pend,
                            !.transition_sample = r.transition,
                            !.detected_mode = IF r.detected THEN MODE_TALK ELSE MODE_NOTHING,
                            !.cancelled = FALSE,
                            !.trace.talk_latch = IF s.talk_up_counter = 0
                                                 THEN LatchedTransition(n) ELSE @]

(***************************************************************************)
(* Which audio is kept and which is skipped                                *)
(***************************************************************************)
\* the skip mode that skips the given mode (anything but MUSIC counts as TALK)
SkipOf(mode) == IF mode = MODE_MUSIC THEN SKIP_MUSIC ELSE SKIP_TALK

\* write_data with anything but TALK counted as MUSIC
WriteDataUnlessTalk(mode) ==
    skip_mode = SKIP_NOTHING
        \/ skip_mode = (IF mode = MODE_TALK THEN SKIP_MUSIC ELSE SKIP_TALK)

\* write_data: the audio of the given mode goes to stdout
WriteData(mode) ==
    skip_mode = SKIP_NOTHING
        \/ skip_mode = (IF mode = MODE_MUSIC THEN SKIP_TALK ELSE SKIP_MUSIC)

(***************************************************************************)
(* A confirmed transition: the splice                                      *)
(***************************************************************************)
AudioOffset(s) == s.transition_sample - s.num_samples + s.output_buffer_index

\* the crossfade taken to start at the transition itself
CrossfadeStartAtTransition(s) == AudioOffset(s)

CrossfadeStart(s) == AudioOffset(s) - crossfade_buff_len \div 2

\* the ring slid left by n frames
SlideRing(s, n) ==
    [s EXCEPT !.output_buffer = Drop(s.output_buffer, 2 * n),
              !.output_buffer_index = s.output_buffer_index - n]

\* the first n frames of the ring written to stdout
WriteRing(s, n) ==
    [s EXCEPT !.stdout = s.stdout \o Take(s.output_buffer, 2 * n),
              !.samples_written = s.samples_written + n]

DiscardRing(s, n) == [s EXCEPT !.samples_discarded = s.samples_discarded + n]

\* entering a skip: write what precedes the crossfade, keep a faded-out copy of its start
FadeOutSplice(s, start) ==
    LET t == SlideRing(WriteRing(s, start), start)
    IN  [t EXCEPT !.crossfade_buffer = fade_out(Take(t.output_buffer, 2 * crossfade_buff_len)),
                  !.splice = "fade_out", !.crossfade_start = start]

\* output_buffer [i] + crossfade_buffer [i], clamped
MixClamped(samples, faded) ==
    [i \in 1..Len(samples) |-> Clamp16(samples[i] + faded[i])]

\* leaving a skip: discard what precedes the crossfade, fade in and mix the kept copy
FadeInSplice(s, start) ==
    LET t == SlideRing(DiscardRing(s, start), start)
        head == MixClamped(fade_in(Take(t.output_buffer, 2 * crossfade_buff_len)),
                           t.crossfade_buffer)
    IN  [t EXCEPT !.output_buffer = head \o Drop(t.output_buffer, 2 * crossfade_buff_len),
                  !.splice = "fade_in", !.crossfade_start = start]

\* Splice without the test of the skip mode
SpliceInAnyMode(s) ==
    IF CrossfadeStart(s) >= 0
    THEN IF skip_mode = SkipOf(s.detected_mode)
         THEN FadeOutSplice(s, CrossfadeStart(s))
         ELSE FadeInSplice(s, CrossfadeStart(s))
    ELSE [s EXCEPT !.pc = "abort_transition", !.crossfade_start = CrossfadeStart(s)]

Splice(s) ==
    IF skip_mode = SKIP_MUSIC \/ skip_mode = SKIP_TALK
    THEN IF CrossfadeStart(s) >= 0
         THEN IF skip_mode = SkipOf(s.detected_mode)
              THEN FadeOutSplice(s, CrossfadeStart(s))
              ELSE FadeInSplice(s, CrossfadeStart(s))
         ELSE [s EXCEPT !.pc = "abort_transition", !.crossfade_start = CrossfadeStart(s)]
    ELSE s

(***************************************************************************)
(* The confirmed sample                                                    *)
(***************************************************************************)
ConfirmedSample(n) ==
    n - ((WINDOW_SECONDS + AVERAGE_SECONDS) * sample_rate + step_samples
            + crossfade_buff_len) \div 2

\* UpdateConfirmed satisfied with one of the two counters at 0
UpdateConfirmedEitherZero(s) ==
    IF s.talk_up_counter = 0 \/ s.music_up_counter = 0
    THEN [s EXCEPT !.confirmed_sample = ConfirmedSample(s.num_samples)]
    ELSE s

\* UpdateConfirmed without the test of the two counters
UpdateConfirmedAlways(s) ==
    [s EXCEPT !.confirmed_sample = ConfirmedSample(s.num_samples)]

UpdateConfirmed(s) ==
    IF s.talk_up_counter = 0 /\ s.music_up_counter = 0
    THEN [s EXCEPT !.confirmed_sample = ConfirmedSample(s.num_samples)]
    ELSE s

(***************************************************************************)
(* The analysis of a full level window, its lookup value being given       *)
(***************************************************************************)
\* a detection: the splice, then current_mode = detected_mode
Detected(s) ==
    LET t == Splice(s)
    IN  IF t.pc = "loop" THEN [t EXCEPT !.current_mode = s.detected_mode] ELSE t

\* the run of equal tendencies a step belongs to: its length so far, and the rising
\* counter and the mode found by its first step
RunAfter(s, music) ==
    IF s.run.tendency = (IF music THEN MODE_MUSIC ELSE MODE_TALK)
    THEN [s.run EXCEPT !.steps = s.run.steps + 1]
    ELSE [tendency |-> IF music THEN MODE_MUSIC ELSE MODE_TALK,
          steps |-> 1,
          base_up |-> IF music THEN s.music_up_counter ELSE s.talk_up_counter,
          base_mode |-> s.current_mode]

\* the step taken once the results ring holds AVERAGE_COUNT values
SmoothedStep(s) ==
    LET sum == SmoothedSum(s.results_buffer)
        music == MusicTendency(sum, ShiftResults(s.results_buffer))
        shifted == [s EXCEPT !.results_buffer = ShiftResults(s.results_buffer),
                             !.run = RunAfter(s, music), !.stepped = TRUE,
                             !.sum = sum, !.summed = Len(s.results_buffer),
                             !.multiplier = Len(ShiftResults(s.results_buffer))]
        m == StateMachine(shifted, music, s.num_samples)
        d == IF m.detected_mode # MODE_NOTHING THEN Detected(m) ELSE m
    IN  IF d.pc = "loop" THEN UpdateConfirmed(d) ELSE d

\* the level buffer emptied after a window
SlideLevelsWhole(s) ==
    [s EXCEPT !.level_buffer_index = 0,
              !.num_windows = s.num_windows + 1]

\* the level buffer slid left by step_samples
SlideLevels(s) ==
    [s EXCEPT !.level_buffer_index = s.level_buffer_index - step_samples,
              !.num_windows = s.num_windows + 1]

AnalyzeStep(s, tensor_value) ==
    LET pushed == [s EXCEPT !.results_buffer = Append(s.results_buffer, tensor_value)]
        t == IF Len(pushed.results_buffer) = AVERAGE_COUNT
             THEN SmoothedStep(pushed) ELSE pushed
    IN  IF t.pc = "loop" THEN SlideLevels(t) ELSE t

(***************************************************************************)
(* Flush, keep-alive                                                       *)
(***************************************************************************)
AvailableSamples(s) ==
    s.confirmed_sample - s.num_samples + s.output_buffer_index + step_samples \div 2

\* FlushDue with the ring taken to be full one frame late
FlushDueLate(s) ==
    s.output_buffer_index = output_buff_len + 1
        \/ AvailableSamples(s) >= sample_rate * FLUSH_SECONDS

FlushDue(s) ==
    s.output_buffer_index = output_buff_len
        \/ AvailableSamples(s) >= sample_rate * FLUSH_SECONDS

\* KeepAliveDue with the test of the mode inverted: the current mode is the kept one
KeepAliveDueInKept(s) ==
    keepalive = 1 /\ AvailableSamples(s) > crossfade_buff_len * 2
        /\ skip_mode # SkipOf(s.current_mode)

\* KeepAliveDue without the test that the current mode is the skipped one
KeepAliveDueAnySkip(s) ==
    keepalive = 1 /\ AvailableSamples(s) > crossfade_buff_len * 2

KeepAliveDue(s) ==
    keepalive = 1 /\ AvailableSamples(s) > crossfade_buff_len * 2
        /\ skip_mode = SkipOf(s.current_mode)

\* crossfade_ptr [i] >>= 1
ScaleDownByHalf(samples) == [i \in 1..Len(samples) |-> samples[i] \div 2]

\* crossfade_ptr [i] >>= 2
ScaleDown(samples) == [i \in 1..Len(samples) |-> samples[i] \div 4]

\* crossfade_ptr [i] += crossfade_buffer [i]
MixWrapped(samples, faded) ==
    [i \in 1..Len(samples) |-> ToInt16(samples[i] + faded[i])]

\* the int values of crossfade_ptr [i] + crossfade_buffer [i], before they are stored
MixSums(samples, faded) == [i \in 1..Len(samples) |-> samples[i] + faded[i]]

Lowest(q) == CHOOSE x \in {q[i] : i \in 1..Len(q)} : \A i \in 1..Len(q) : x <= q[i]
Highest(q) == CHOOSE x \in {q[i] : i \in 1..Len(q)} : \A i \in 1..Len(q) : x >= q[i]

KeepAliveStart(available) == available \div 2 - crossfade_buff_len

\* KeepAlive counting all the available frames as discarded
KeepAliveDiscardsAll(s, available) ==
    LET start == KeepAliveStart(available)
        region == ScaleDown(SubSeq(s.output_buffer, 2 * start + 1,
                                   2 * start + 4 * crossfade_buff_len))
        mixed == MixWrapped(fade_in(Take(region, 2 * crossfade_buff_len)),
                            s.crossfade_buffer)
        t == [s EXCEPT !.stdout = s.stdout \o mixed,
                       !.crossfade_buffer = fade_out(Drop(region, 2 * crossfade_buff_len)),
                       !.samples_discarded = s.samples_discarded + available,
                       !.samples_written = s.samples_written + crossfade_buff_len,
                       !.flush = "keepalive"]
    IN  SlideRing(t, available)

KeepAlive(s, available) ==
    LET start == KeepAliveStart(available)
        region == ScaleDown(SubSeq(s.output_buffer, 2 * start + 1,
                                   2 * start + 4 * crossfade_buff_len))
        mixed == MixWrapped(fade_in(Take(region, 2 * crossfade_buff_len)),
                            s.crossfade_buffer)
        sums == MixSums(fade_in(Take(region, 2 * crossfade_buff_len)), s.crossfade_buffer)
        t == [s EXCEPT !.stdout = s.stdout \o mixed,
                       !.crossfade_buffer = fade_out(Drop(region, 2 * crossfade_buff_len)),
                       !.samples_discarded = s.samples_discarded + available - crossfade_buff_len,
                       !.samples_written = s.samples_written + crossfade_buff_len,
                       !.flush = "keepalive",
                       !.mix_low = Lowest(sums), !.mix_high = Highest(sums)]
    IN  SlideRing(t, available)

Flush(s, available) ==
    IF WriteData(s.current_mode)
    THEN SlideRing([WriteRing(s, available) EXCEPT !.flush = "wrote"], available)
    ELSE SlideRing([DiscardRing(s, available) EXCEPT !.flush = "discarded"], available)

FlushStep(s) ==
    LET available == AvailableSamples(s)
        t == [s EXCEPT !.available_samples = available]
    IN  IF FlushDue(s)
        THEN IF KeepAliveDue(s) THEN KeepAlive(t, available)
             ELSE IF available > 0 THEN Flush(t, available)
             ELSE [t EXCEPT !.pc = "abort_full"]
        ELSE t

(***************************************************************************)
(* One pass of the loop over the input frames                              *)
(***************************************************************************)
StoreFrame(s) ==
    [s EXCEPT !.output_buffer = s.output_buffer
                    \o <<LeftOut(s.num_samples), RightOut(s.num_samples)>>,
              !.level_buffer_index = s.level_buffer_index + 1,
              !.output_buffer_index = s.output_buffer_index + 1,
              !.num_samples = s.num_samples + 1]

WindowFull(s) == s.level_buffer_index = level_buff_len

\* -k is given, the current mode is the skipped one and no detection is pending
QuietSkip(s) ==
    /\ keepalive = 1 /\ skip_mode = SkipOf(s.current_mode)
    /\ s.music_up_counter = 0 /\ s.talk_up_counter = 0

\* the frames processed in a quiet skip since it began or since its last keep-alive
Traced(s) ==
    [s EXCEPT !.trace.quiet_frames =
                    IF s.flush = "keepalive" \/ ~QuietSkip(s) THEN 0 ELSE @ + 1]

Frame(s, tensor_value) ==
    LET stored == StoreFrame(s)
        analyzed == IF WindowFull(stored) THEN AnalyzeStep(stored, tensor_value) ELSE stored
    IN  IF analyzed.pc = "loop" THEN Traced(FlushStep(analyzed)) ELSE analyzed

\* FinalDrainOf writing the ring without counting it
FinalDrainUncounted(s) ==
    LET n == s.output_buffer_index
        t == IF n # 0
             THEN IF WriteData(s.current_mode)
                  THEN [s EXCEPT !.stdout = s.stdout \o Take(s.output_buffer, 2 * n),
                                 !.flush = "final wrote"]
                  ELSE [DiscardRing(s, n) EXCEPT !.flush = "final discarded"]
             ELSE s
    IN  [t EXCEPT !.pc = "done"]

\* the drain after the loop
FinalDrainOf(s) ==
    LET n == s.output_buffer_index
        t == IF n # 0
             THEN IF WriteData(s.current_mode)
                  THEN [WriteRing(s, n) EXCEPT !.flush = "final wrote"]
                  ELSE [DiscardRing(s, n) EXCEPT !.flush = "final discarded"]
             ELSE s
    IN  [t EXCEPT !.pc = "done"]

(***************************************************************************)
(* Tensor container: header, compressed payload, additive checksum         *)
(***************************************************************************)
TENSOR_VERSION == 1
ARRAY_BINS_1 == 48
ARRAY_BINS_2 == 24
ARRAY_BINS_3 == 16
ARRAY_BINS_4 == 16
\* sizeof (struct tensor_header): two uint32_t and four unsigned char
HeaderSize == 12
\* what read_buff returns at the end of its buffer
EOF == -1

\* sizeof (tensor_array) of the model; the header keeps the real dimensions
TensorBytes == 8
\* the cells a tensor of the model is made of
TensorValues == {-99, 0}
Tensors == [1..TensorBytes -> TensorValues]

dimensions == <<ARRAY_BINS_1, ARRAY_BINS_2, ARRAY_BINS_3, ARRAY_BINS_4>>

\* (unsigned char) of a signed char, and back
ToByte(c) == c % 256
ToChar(b) == IF b >= 128 THEN b - 256 ELSE b
TensorToBytes(cells) == [i \in 1..Len(cells) |-> ToByte(cells[i])]
BytesToTensor(bytes) == [i \in 1..Len(bytes) |-> ToChar(bytes[i])]

\* a uint32_t is kept as its four bytes in memory, lowest first
Le32(x) == <<x % 256, (x \div 256) % 256, (x \div 65536) % 256, (x \div 16777216) % 256>>

\* w += b and w -= b of a uint32_t w and an unsigned char b, modulo 2^32
Uint32Add(w, b) ==
    LET s1 == w[1] + b
        s2 == w[2] + s1 \div 256
        s3 == w[3] + s2 \div 256
        s4 == w[4] + s3 \div 256
    IN  <<s1 % 256, s2 % 256, s3 % 256, s4 % 256>>

Uint32Sub(w, b) ==
    LET d1 == w[1] - b
        d2 == w[2] - (IF d1 < 0 THEN 1 ELSE 0)
        d3 == w[3] - (IF d2 < 0 THEN 1 ELSE 0)
        d4 == w[4] - (IF d3 < 0 THEN 1 ELSE 0)
    IN  <<d1 % 256, d2 % 256, d3 % 256, d4 % 256>>

\* a streamer after memset 0, over a buffer
Streamer(buffer, size) == [size |-> size, index |-> 0, wrapped |-> 0, buffer |-> buffer]

read_buff(stream) ==
    IF stream.index = stream.size
    THEN [value |-> EOF, stream |-> stream]
    ELSE [value |-> stream.buffer[stream.index + 1],
          stream |-> [stream EXCEPT !.index = @ + 1]]

\* write_buff that starts over without counting it
write_buff_uncounted(value, stream) ==
    LET s == IF stream.index = stream.size
             THEN [stream EXCEPT !.index = 0]
             ELSE stream
    IN  [s EXCEPT !.buffer[s.index + 1] = ToByte(value), !.index = @ + 1]

write_buff(value, stream) ==
    LET s == IF stream.index = stream.size
             THEN [stream EXCEPT !.index = 0, !.wrapped = @ + 1]
             ELSE stream
    IN  [s EXCEPT !.buffer[s.index + 1] = ToByte(value), !.index = @ + 1]

\* every byte a source still holds, read until EOF
RECURSIVE ReadAll(_, _)
ReadAll(stream, bytes) ==
    LET r == read_buff(stream)
    IN  IF r.value = EOF
        THEN [bytes |-> bytes, stream |-> r.stream]
        ELSE ReadAll(r.stream, Append(bytes, r.value))

\* n bytes read from a source
RECURSIVE ReadN(_, _)
ReadN(stream, n) == IF n = 0 THEN stream ELSE ReadN(read_buff(stream).stream, n - 1)

\* bytes handed to a sink one by one
RECURSIVE WriteAll(_, _)
WriteAll(stream, bytes) ==
    IF bytes = <<>> THEN stream ELSE WriteAll(write_buff(Head(bytes), stream), Tail(bytes))

(***************************************************************************)
(* The codec behind lzw_compress and lzw_decompress.  Its implementation   *)
(* is outside the sources: it is taken as a lossless byte codec that       *)
(* starts its output with maxbits and whose output can be longer than its  *)
(* input; here runs of equal bytes, no longer than maxbits allows, each    *)
(* stored as (length, byte), closed by a zero length.                      *)
(***************************************************************************)
MinMaxbits == 9
MaxMaxbits == 16
MaxRun(maxbits) == maxbits - 5

RECURSIVE RunLength(_, _)
RunLength(bytes, cap) ==
    IF Len(bytes) <= 1 \/ cap <= 1 \/ bytes[2] # bytes[1]
    THEN 1
    ELSE 1 + RunLength(Tail(bytes), cap - 1)

RECURSIVE RunsOf(_, _)
RunsOf(bytes, cap) ==
    IF bytes = <<>>
    THEN <<>>
    ELSE LET n == RunLength(bytes, cap)
         IN  <<n, Head(bytes)>> \o RunsOf(SubSeq(bytes, n + 1, Len(bytes)), cap)

LzwEncode(bytes, maxbits) == <<maxbits>> \o RunsOf(bytes, MaxRun(maxbits)) \o <<0>>

RECURSIVE DecodeRuns(_, _, _, _)
DecodeRuns(payload, i, cap, out) ==
    IF i > Len(payload)
    THEN [error |-> TRUE, reads |-> Len(payload), out |-> out]
    ELSE IF payload[i] = 0
    THEN [error |-> FALSE, reads |-> i, out |-> out]
    ELSE IF payload[i] > cap
    THEN [error |-> TRUE, reads |-> i, out |-> out]
    ELSE IF i + 1 > Len(payload)
    THEN [error |-> TRUE, reads |-> Len(payload), out |-> out]
    ELSE DecodeRuns(payload, i + 2, cap,
                    out \o [k \in 1..payload[i] |-> payload[i + 1]])

LzwDecode(payload) ==
    IF payload = <<>>
    THEN [error |-> TRUE, reads |-> 0, out |-> <<>>]
    ELSE IF payload[1] < MinMaxbits \/ payload[1] > MaxMaxbits
    THEN [error |-> TRUE, reads |-> 1, out |-> <<>>]
    ELSE DecodeRuns(payload, 2, MaxRun(payload[1]), <<>>)

\* the source is read to its end, the code goes to the sink
lzw_compress(writer, reader, maxbits) ==
    LET in == ReadAll(reader, <<>>)
    IN  IF maxbits < MinMaxbits \/ maxbits > MaxMaxbits
        THEN [error |-> 1, reader |-> reader, writer |-> writer]
        ELSE [error |-> 0, reader |-> in.stream,
              writer |-> WriteAll(writer, LzwEncode(in.bytes, maxbits))]

\* the code is read from the source, the bytes go to the sink
lzw_decompress(writer, reader) ==
    LET d == LzwDecode(SubSeq(reader.buffer, reader.index + 1, reader.size))
    IN  [error |-> IF d.error THEN 1 ELSE 0,
         reader |-> ReadN(reader, d.reads),
         writer |-> WriteAll(writer, d.out)]

(***************************************************************************)
(* write_tensor_file of tensor-gen, local_tensor_file of the filter        *)
(***************************************************************************)
\* header.checksum after the loop that adds, or subtracts, every byte of the tensor
RECURSIVE ChecksumAdd(_, _)
ChecksumAdd(checksum, bytes) ==
    IF bytes = <<>> THEN checksum
    ELSE ChecksumAdd(Uint32Add(checksum, Head(bytes)), Tail(bytes))

RECURSIVE ChecksumSub(_, _)
ChecksumSub(checksum, bytes) ==
    IF bytes = <<>> THEN checksum
    ELSE ChecksumSub(Uint32Sub(checksum, Head(bytes)), Tail(bytes))

\* the candidates maxbits .. 16 in turn; st carries the two streamers and the best so far
RECURSIVE TryMaxbits(_, _)
TryMaxbits(maxbits, st) ==
    IF maxbits > MaxMaxbits \/ st.failed
    THEN st
    ELSE LET c == lzw_compress([st.writer EXCEPT !.index = 0],
                               [st.reader EXCEPT !.index = 0], maxbits)
             better == c.writer.index < st.smallest_output
         IN  TryMaxbits(maxbits + 1,
                [reader |-> c.reader, writer |-> c.writer, failed |-> c.error # 0,
                 smallest_output |-> IF c.error = 0 /\ better THEN c.writer.index
                                     ELSE st.smallest_output,
                 best_maxbits |-> IF c.error = 0 /\ better THEN maxbits
                                  ELSE st.best_maxbits])

\* the bytes of the file that write_tensor_file leaves
write_tensor_file(cells) ==
    LET bytes == TensorToBytes(cells)
        header == Le32(TENSOR_VERSION) \o ChecksumAdd(Le32(0), bytes) \o dimensions
        tried == TryMaxbits(MinMaxbits,
                    [reader |-> Streamer(bytes, Len(bytes)),
                     writer |-> Streamer([i \in 1..Len(bytes) |-> 0], Len(bytes)),
                     failed |-> FALSE,
                     smallest_output |-> Len(bytes) + 1,
                     best_maxbits |-> 0])
        final == lzw_compress([tried.writer EXCEPT !.index = 0],
                              [tried.reader EXCEPT !.index = 0], tried.best_maxbits)
    IN  IF tried.failed \/ final.error # 0
        THEN header
        ELSE header \o SubSeq(final.writer.buffer, 1, final.writer.index)

\* local_tensor_file without the test that the sink has been filled
local_tensor_file_unfilled(cells, compressed_tensor) ==
    LET compressed_size == Len(compressed_tensor)
        version == SubSeq(compressed_tensor, 1, 4)
        checksum == SubSeq(compressed_tensor, 5, 8)
        reader == Streamer(SubSeq(compressed_tensor, HeaderSize + 1, compressed_size),
                           compressed_size - HeaderSize)
        writer == Streamer(TensorToBytes(cells), Len(cells))
        d == lzw_decompress(writer, reader)
        loaded == BytesToTensor(d.writer.buffer)
    IN  IF compressed_size < HeaderSize
        THEN [res |-> 0, tensor |-> cells]
        ELSE IF SubSeq(compressed_tensor, 9, 12) # dimensions \/ version # Le32(TENSOR_VERSION)
        THEN [res |-> 0, tensor |-> cells]
        ELSE IF d.error # 0
        THEN [res |-> 0, tensor |-> loaded]
        ELSE IF d.reader.index # d.reader.size
                \/ d.reader.wrapped # 0 \/ d.writer.wrapped # 0
        THEN [res |-> 0, tensor |-> loaded]
        ELSE IF ChecksumSub(checksum, d.writer.buffer) # Le32(0)
        THEN [res |-> 0, tensor |-> loaded]
        ELSE [res |-> 1, tensor |-> loaded]

\* the result of local_tensor_file and the tensor it leaves in memory
local_tensor_file(cells, compressed_tensor) ==
    LET compressed_size == Len(compressed_tensor)
        version == SubSeq(compressed_tensor, 1, 4)
        checksum == SubSeq(compressed_tensor, 5, 8)
        reader == Streamer(SubSeq(compressed_tensor, HeaderSize + 1, compressed_size),
                           compressed_size - HeaderSize)
        writer == Streamer(TensorToBytes(cells), Len(cells))
        d == lzw_decompress(writer, reader)
        loaded == BytesToTensor(d.writer.buffer)
    IN  IF compressed_size < HeaderSize
        THEN [res |-> 0, tensor |-> cells]
        ELSE IF SubSeq(compressed_tensor, 9, 12) # dimensions \/ version # Le32(TENSOR_VERSION)
        THEN [res |-> 0, tensor |-> cells]
        ELSE IF d.error # 0
        THEN [res |-> 0, tensor |-> loaded]
        ELSE IF d.reader.index # d.reader.size \/ d.writer.index # d.writer.size
                \/ d.reader.wrapped # 0 \/ d.writer.wrapped # 0
        THEN [res |-> 0, tensor |-> loaded]
        ELSE IF ChecksumSub(checksum, d.writer.buffer) # Le32(0)
        THEN [res |-> 0, tensor |-> loaded]
        ELSE [res |-> 1, tensor |-> loaded]

(***************************************************************************)
(* State                                                                   *)
(***************************************************************************)
NoReport ==
    [stepped |-> FALSE,
     detected_mode |-> MODE_NOTHING, cancelled |-> FALSE, splice |-> "none",
     crossfade_start |-> 0, flush |-> "none", available_samples |-> 0,
     sum |-> 0, summed |-> 0, multiplier |-> 0, mix_low |-> 0, mix_high |-> 0]

\* the variables of main as a record, the report of the frame cleared
Cur ==
    [pc |-> pc, num_samples |-> num_samples, level_buffer_index |-> level_buffer_index,
     output_buffer_index |-> output_buffer_index, num_windows |-> num_windows,
     results_buffer |-> results_buffer, current_mode |-> current_mode,
     music_up_counter |-> music_up_counter, talk_up_counter |-> talk_up_counter,
     pend_up_counter |-> pend_up_counter, transition_sample |-> transition_sample,
     confirmed_sample |-> confirmed_sample, samples_discarded |-> samples_discarded,
     samples_written |-> samples_written, output_buffer |-> output_buffer,
     crossfade_buffer |-> crossfade_buffer, stdout |-> stdout, run |-> run,
     trace |-> trace,
     stepped |-> FALSE,
     detected_mode |-> MODE_NOTHING, cancelled |-> FALSE, splice |-> "none",
     crossfade_start |-> 0, flush |-> "none", available_samples |-> 0,
     sum |-> 0, summed |-> 0, multiplier |-> 0, mix_low |-> 0, mix_high |-> 0]

Becomes(s) ==
    /\ pc' = s.pc
    /\ num_samples' = s.num_samples
    /\ level_buffer_index' = s.level_buffer_index
    /\ output_buffer_index' = s.output_buffer_index
    /\ num_windows' = s.num_windows
    /\ results_buffer' = s.results_buffer
    /\ current_mode' = s.current_mode
    /\ music_up_counter' = s.music_up_counter
    /\ talk_up_counter' = s.talk_up_counter
    /\ pend_up_counter' = s.pend_up_counter
    /\ transition_sample' = s.transition_sample
    /\ confirmed_sample' = s.confirmed_sample
    /\ samples_discarded' = s.samples_discarded
    /\ samples_written' = s.samples_written
    /\ output_buffer' = s.output_buffer
    /\ crossfade_buffer' = s.crossfade_buffer
    /\ stdout' = s.stdout
    /\ run' = s.run
    /\ trace' = s.trace
    /\ report' = [stepped |-> s.stepped,
                  detected_mode |-> s.detected_mode, cancelled |-> s.cancelled,
                  splice |-> s.splice, crossfade_start |-> s.crossfade_start,
                  flush |-> s.flush, available_samples |-> s.available_samples,
                  sum |-> s.sum, summed |-> s.summed, multiplier |-> s.multiplier,
                  mix_low |-> s.mix_low, mix_high |-> s.mix_high]

SkipModes == {SKIP_NOTHING, SKIP_TALK, SKIP_MUSIC, SKIP_EVERYTHING}

InitMain ==
    /\ right_output = OUTPUT_AUDIO
    /\ random = RingInit(RandomSeed, ring_buff_len)
    /\ num_samples = 0 /\ level_buffer_index = 0 /\ output_buffer_index = 0
    /\ num_windows = 0 /\ results_buffer = <<>>
    /\ current_mode = MODE_NOTHING
    /\ music_up_counter = 0 /\ talk_up_counter = 0 /\ pend_up_counter = 0
    /\ transition_sample = 0 /\ confirmed_sample = 0
    /\ samples_discarded = 0 /\ samples_written = 0
    /\ output_buffer = <<>>
    /\ crossfade_buffer = [i \in 1..(2 * crossfade_buff_len) |-> 0]
    /\ stdout = <<>>
    /\ report = NoReport
    /\ run = [tendency |-> MODE_NOTHING, steps |-> 0, base_up |-> 0,
              base_mode |-> MODE_NOTHING]
    /\ trace = [music_latch |-> 0, talk_latch |-> 0, quiet_frames |-> 0]
    /\ segment_value = 0 /\ segment_left = 0 /\ segments_done = <<>>

\* the command lines explored: every skip mode with and without -k, a raised, a
\* lowered and the highest threshold, mono input, a mono debug override of the
\* left output
Options ==
    [skip : SkipModes, keep : {0, 1}, thr : {0}, ch : {2}, left : {OUTPUT_AUDIO}]
    \cup {[skip |-> SKIP_MUSIC, keep |-> 1, thr |-> 50, ch |-> 2, left |-> OUTPUT_AUDIO],
          [skip |-> SKIP_TALK, keep |-> 0, thr |-> -50, ch |-> 2, left |-> OUTPUT_AUDIO],
          [skip |-> SKIP_MUSIC, keep |-> 0, thr |-> 99, ch |-> 2, left |-> OUTPUT_AUDIO],
          [skip |-> SKIP_NOTHING, keep |-> 0, thr |-> 0, ch |-> 1, left |-> OUTPUT_AUDIO],
          [skip |-> SKIP_NOTHING, keep |-> 0, thr |-> 0, ch |-> 2, left |-> OUTPUT_MONO]}

\* nothing looked up, nothing faded
LookupIdle ==
    /\ result = [range_dB |-> 0, cycles |-> 0, low_third |-> 0, mid_third |-> 0]
    /\ tensor_index = <<>>
    /\ tensor_pointer = -1

FadeIdle == fade_input = <<>> /\ faded_out = <<>> /\ faded_in = <<>>

GenIdle ==
    /\ files = <<<<>>, <<>>>>
    /\ alternate = 0 /\ gen_dimensions = 0
    /\ dist = <<>> /\ window_count = <<0, 0>> /\ passes = 0
    /\ trained = <<{}, {}>> /\ tested = <<{}, {}>> /\ hits = <<>>

\* no streamer in use, no window under analysis
StreamIdle == streamer = <<>>
AnalysisIdle == levels = <<>> /\ analysis = <<>>
AuxIdle == StreamIdle /\ AnalysisIdle

SideIdle == LookupIdle /\ FadeIdle /\ GenIdle /\ AuxIdle

\* the filter at the start of its loop, the built-in tensor loaded
Init ==
    /\ InitMain
    /\ SideIdle
    /\ pc = "loop"
    /\ gen_tensor = [i \in 1..TensorBytes |-> 0]
    /\ tensor_file = <<>>
    /\ file_changed = FALSE
    /\ tensor = [i \in 1..TensorBytes |-> 0]
    /\ load_result = 1
    /\ \E o \in Options :
        /\ skip_mode = o.skip /\ keepalive = o.keep /\ threshold = o.thr
        /\ channels = o.ch /\ left_output = o.left

(***************************************************************************)
(* Actions                                                                 *)
(***************************************************************************)
\* the segment the next window belongs to: the current one, or a new one
NextSegments ==
    IF level_buffer_index + 1 = level_buff_len
    THEN IF segment_left > 0
         THEN {[value |-> segment_value, left |-> segment_left - 1, done |-> segments_done]}
         ELSE {[value |-> v, left |-> w - 1, done |-> Append(segments_done, <<v, w>>)] :
                    v \in LookupValues, w \in SegmentWindows \cup ScriptedWindows}
    ELSE {[value |-> segment_value, left |-> segment_left, done |-> segments_done]}

\* one more frame is read from stdin and processed
ProcessFrame ==
    /\ pc = "loop"
    /\ num_samples < MaxSamples
    /\ \E g \in NextSegments :
        /\ IsProgramme(g.done)
        /\ Becomes(Frame(Cur, g.value))
        /\ random' = NextRandom(random)
        /\ segment_value' = g.value
        /\ segment_left' = g.left
        /\ segments_done' = g.done
    /\ UNCHANGED optvars
    /\ UNCHANGED tensorvars
    /\ UNCHANGED sidevars

\* stdin is at its end
FinalDrain ==
    /\ pc = "loop"
    /\ Becomes(FinalDrainOf(Cur))
    /\ UNCHANGED random
    /\ UNCHANGED optvars
    /\ UNCHANGED envvars
    /\ UNCHANGED tensorvars
    /\ UNCHANGED sidevars

Next == ProcessFrame \/ FinalDrain

Spec == Init /\ [][Next]_vars

(***************************************************************************)
(* The tensor file from tensor-gen to the filter                           *)
(***************************************************************************)
\* frames of audio offered to a filter that has loaded its tensor
ShortInput == 3

mainvars == <<num_samples, level_buffer_index, output_buffer_index, num_windows,
              results_buffer, current_mode, music_up_counter, talk_up_counter,
              pend_up_counter, transition_sample, confirmed_sample, samples_discarded,
              samples_written, output_buffer, crossfade_buffer, stdout, report, run,
              trace, random>>

\* tensor-gen is about to write its tensor; the filter has not started
InitTensor ==
    /\ InitMain
    /\ SideIdle
    /\ pc = "gen"
    /\ skip_mode = SKIP_NOTHING /\ keepalive = 0 /\ threshold = 0
    /\ channels = 2 /\ left_output = OUTPUT_AUDIO
    /\ gen_tensor \in Tensors
    /\ tensor_file = <<>>
    /\ file_changed = FALSE
    /\ tensor = [i \in 1..TensorBytes |-> 0]
    /\ load_result = -1

WriteTensorFile ==
    /\ pc = "gen"
    /\ pc' = "file"
    /\ tensor_file' = write_tensor_file(gen_tensor)
    /\ UNCHANGED <<gen_tensor, file_changed, tensor, load_result>>
    /\ UNCHANGED <<optvars, envvars, mainvars>>
    /\ UNCHANGED sidevars

\* what can happen to a file between the two programs: one byte changed, the
\* file cut short, a byte added
DamageBytes(b) == {(b + 1) % 256, (b + 255) % 256, 0, 255} \ {b}
Damaged(f) ==
    {[f EXCEPT ![p] = b] : <<p, b>> \in {pb \in (1..Len(f)) \X (0..255) :
                                            pb[2] \in DamageBytes(f[pb[1]])}}
        \cup {SubSeq(f, 1, n) : n \in {0, HeaderSize - 1, HeaderSize, Len(f) - 1}
                                        \cap (0..(Len(f) - 1))}
        \cup {Append(f, b) : b \in {0, 1}}

DamageFile ==
    /\ pc = "file"
    /\ ~file_changed
    /\ \E f \in Damaged(tensor_file) : tensor_file' = f
    /\ file_changed' = TRUE
    /\ UNCHANGED <<pc, gen_tensor, tensor, load_result>>
    /\ UNCHANGED <<optvars, envvars, mainvars>>
    /\ UNCHANGED sidevars

\* main of the filter reads the tensor file and gives up if that fails
LoadTensor ==
    /\ pc = "file"
    /\ LET r == local_tensor_file(tensor, tensor_file)
       IN  /\ tensor' = r.tensor
           /\ load_result' = r.res
           /\ pc' = IF r.res = 0 THEN "exit_tensor" ELSE "loop"
    /\ UNCHANGED <<gen_tensor, tensor_file, file_changed>>
    /\ UNCHANGED <<optvars, envvars, mainvars>>
    /\ UNCHANGED sidevars

ShortFrame ==
    /\ num_samples < ShortInput
    /\ ProcessFrame

\* the status main returns, -1 while it runs
ExitStatus ==
    IF pc = "done" THEN 0
    ELSE IF pc \in {"exit_tensor", "abort_transition", "abort_full"} THEN 1
    ELSE -1

NextTensor == WriteTensorFile \/ DamageFile \/ LoadTensor \/ ShortFrame \/ FinalDrain

SpecTensor == InitTensor /\ [][NextTensor]_vars

(***************************************************************************)
(* The cell of the tensor that an analysis result selects                  *)
(***************************************************************************)
\* the builder's function: the four indices
analysis_result_to_tensor_index(r) ==
    LET h_index == r.range_dB
        i_index == r.cycles \div 2
        j_index == r.low_third \div 16
        k_index == r.mid_third \div 16
    IN  <<IF h_index >= ARRAY_BINS_1 THEN ARRAY_BINS_1 - 1 ELSE h_index,
          IF i_index >= ARRAY_BINS_2 THEN ARRAY_BINS_2 - 1 ELSE i_index,
          IF j_index >= ARRAY_BINS_3 THEN ARRAY_BINS_3 - 1 ELSE j_index,
          IF k_index >= ARRAY_BINS_4 THEN ARRAY_BINS_4 - 1 ELSE k_index>>

\* &tensor [h] [i] [j] [k] as the number of cells from the start of the tensor
CellOffset(h, i, j, k) ==
    ((h * ARRAY_BINS_2 + i) * ARRAY_BINS_3 + j) * ARRAY_BINS_4 + k

\* analysis_result_to_tensor_pointer with the last index left as it is
analysis_result_to_tensor_pointer_unclamped(r) ==
    LET h_index == r.range_dB
        i_index == r.cycles \div 2
        j_index == r.low_third \div 16
        k_index == r.mid_third
    IN  CellOffset(IF h_index >= ARRAY_BINS_1 THEN ARRAY_BINS_1 - 1 ELSE h_index,
                   IF i_index >= ARRAY_BINS_2 THEN ARRAY_BINS_2 - 1 ELSE i_index,
                   IF j_index >= ARRAY_BINS_3 THEN ARRAY_BINS_3 - 1 ELSE j_index,
                   k_index)

\* the filter's function: the cell itself
analysis_result_to_tensor_pointer(r) ==
    LET h_index == r.range_dB
        i_index == r.cycles \div 2
        j_index == r.low_third \div 16
        k_index == r.mid_third \div 16
    IN  CellOffset(IF h_index >= ARRAY_BINS_1 THEN ARRAY_BINS_1 - 1 ELSE h_index,
                   IF i_index >= ARRAY_BINS_2 THEN ARRAY_BINS_2 - 1 ELSE i_index,
                   IF j_index >= ARRAY_BINS_3 THEN ARRAY_BINS_3 - 1 ELSE j_index,
                   IF k_index >= ARRAY_BINS_4 THEN ARRAY_BINS_4 - 1 ELSE k_index)

\* the values of an unsigned char, and the two at its ends
UnsignedChars == 0..255
EdgeBytes == {0, 255}

\* analysis results: one field takes every value while the others are at an end
LookupResults ==
    [range_dB : UnsignedChars, cycles : EdgeBytes, low_third : EdgeBytes, mid_third : EdgeBytes]
        \cup [range_dB : EdgeBytes, cycles : UnsignedChars, low_third : EdgeBytes,
              mid_third : EdgeBytes]
        \cup [range_dB : EdgeBytes, cycles : EdgeBytes, low_third : UnsignedChars,
              mid_third : EdgeBytes]
        \cup [range_dB : EdgeBytes, cycles : EdgeBytes, low_third : EdgeBytes,
              mid_third : UnsignedChars]

\* neither program is running
Parked ==
    /\ InitMain
    /\ pc = "parked"
    /\ skip_mode = SKIP_NOTHING /\ keepalive = 0 /\ threshold = 0
    /\ channels = 2 /\ left_output = OUTPUT_AUDIO
    /\ gen_tensor = [i \in 1..TensorBytes |-> 0]
    /\ tensor_file = <<>>
    /\ file_changed = FALSE
    /\ tensor = [i \in 1..TensorBytes |-> 0]
    /\ load_result = -1

allmainvars == <<pc, optvars, envvars, mainvars, tensorvars>>

InitLookup ==
    /\ Parked
    /\ FadeIdle /\ GenIdle /\ AuxIdle
    /\ result \in LookupResults
    /\ tensor_index = <<>>
    /\ tensor_pointer = -1

Lookup ==
    /\ tensor_index = <<>>
    /\ tensor_index' = analysis_result_to_tensor_index(result)
    /\ tensor_pointer' = analysis_result_to_tensor_pointer(result)
    /\ UNCHANGED <<result, fadevars, genvars, auxvars, allmainvars>>

NextLookup == Lookup

SpecLookup == InitLookup /\ [][NextLookup]_vars

(***************************************************************************)
(* The two fades over a constant signal                                    *)
(***************************************************************************)
\* the longest fade tried, in samples
MaxFade == 8

\* sample values: the ends of int16, the values around zero, some between
FadeValues == {-32768, -32767, -12345, -100, -7, -2, -1, 0, 1, 2, 3, 7, 100, 12345, 32766, 32767}

InitFade ==
    /\ Parked
    /\ LookupIdle /\ GenIdle /\ AuxIdle
    /\ \E x \in FadeValues, n \in 1..MaxFade : fade_input = [i \in 1..n |-> x]
    /\ faded_out = <<>> /\ faded_in = <<>>

\* fade_out (copy, n, 1) and fade_in (copy, n, 1) of the same samples
Fade ==
    /\ faded_out = <<>>
    /\ faded_out' = fade_out(fade_input)
    /\ faded_in' = fade_in(fade_input)
    /\ UNCHANGED <<fade_input, lookupvars, genvars, auxvars, allmainvars>>

NextFade == Fade

SpecFade == InitFade /\ [][NextFade]_vars

(***************************************************************************)
(* tensor-gen: histograms, fusion, border fill, broadcast, self-test       *)
(*                                                                         *)
(* The tensor is kept with shorter axes than ARRAY_BINS_1..4, and a record *)
(* of an input file is kept as the four indices that                       *)
(* analysis_result_to_tensor_index gives for it.                           *)
(***************************************************************************)
\* the lengths of the four axes of the tensor here
ModelBins1 == 3
ModelBins2 == 2
ModelBins3 == 2
ModelBins4 == 2

\* the longest input file of freely chosen records
MaxRecords == 1

ModelBins == <<ModelBins1, ModelBins2, ModelBins3, ModelBins4>>
Cells == (0..(ModelBins1 - 1)) \X (0..(ModelBins2 - 1)) \X (0..(ModelBins3 - 1))
             \X (0..(ModelBins4 - 1))

\* array_bins_1..4 after the switch on the dimension count
array_bins(d) ==
    <<ModelBins1,
      IF d = 1 THEN 1 ELSE ModelBins2,
      IF d \in {1, 2} THEN 1 ELSE ModelBins3,
      IF d \in {1, 2, 3} THEN 1 ELSE ModelBins4>>

\* h < array_bins_1 && i < array_bins_2 && j < array_bins_3 && k < array_bins_4
InBins(c, bins) == \A a \in 1..4 : c[a] < bins[a]

\* if (h >= array_bins_1) h = array_bins_1 - 1; and so on
ClampToBins(c, bins) ==
    <<IF c[1] >= bins[1] THEN bins[1] - 1 ELSE c[1],
      IF c[2] >= bins[2] THEN bins[2] - 1 ELSE c[2],
      IF c[3] >= bins[3] THEN bins[3] - 1 ELSE c[3],
      IF c[4] >= bins[4] THEN bins[4] - 1 ELSE c[4]>>

\* the training test with the parity of the self-test
ReadGateEven(alt, count) == alt = 0 \/ count % 2 = 0

\* !alternate || (window_count & 1)
ReadGate(alt, count) == alt = 0 \/ count % 2 = 1

\* !alternate || !(window_count & 1)
TestGate(alt, count) == alt = 0 \/ count % 2 = 0

\* the loop of read_analysis_results from record number count on
RECURSIVE ReadFrom(_, _, _, _, _)
ReadFrom(file, count, alt, bins, d) ==
    IF count >= Len(file) THEN d
    ELSE LET c == ClampToBins(file[count + 1], bins)
         IN  ReadFrom(file, count + 1, alt, bins,
                      IF ReadGate(alt, count) THEN [d EXCEPT ![c] = @ + alt + 1] ELSE d)

read_analysis_results(file, alt, bins) ==
    [dist_array |-> ReadFrom(file, 0, alt, bins, [c \in Cells |-> 0]),
     window_count |-> Len(file)]

\* conversion of an int to signed char
ToSignedChar(x) == ((x + 128) % 256) - 128

\* file1_weight : file2_weight as a ratio of integers
Weight1(h1, n1, h2, n2) == h1 * n2
Weight2(h1, n1, h2, n2) == h2 * n1

\* floor (file1_weight * 99 + file2_weight * -99 + 0.5) in exact arithmetic, for
\* a cell seen in both files
FusedExact(h1, n1, h2, n2) ==
    LET a == Weight1(h1, n1, h2, n2)
        b == Weight2(h1, n1, h2, n2)
    IN  IF a > b THEN (199 * a - 198 * b) \div (2 * a)
        ELSE (198 * a - 197 * b) \div (2 * b)

\* the exact sum is a whole number although the quotient of the two weights has
\* no exact double: the double sum can lie just below it
FusionTie(h1, n1, h2, n2) ==
    /\ h1 > 0 /\ h2 > 0
    /\ LET a == Weight1(h1, n1, h2, n2)
           b == Weight2(h1, n1, h2, n2)
       IN  IF a > b THEN (199 * a - 198 * b) % (2 * a) = 0 /\ 2 * b # a
           ELSE (198 * a - 197 * b) % (2 * b) = 0 /\ 2 * a # b

\* the cell of the fused tensor; down says that a double sum just below a whole
\* number was rounded down
Fused(h1, n1, h2, n2, down) ==
    IF h1 > 0 /\ h2 = 0 THEN 99
    ELSE IF h1 = 0 /\ h2 > 0 THEN -99
    ELSE IF h1 > 0 /\ h2 > 0
         THEN ToSignedChar(FusedExact(h1, n1, h2, n2) - (IF down THEN 1 ELSE 0))
    ELSE 0

\* the cells in which the fusion of two histograms can take either value
TieCells(d, n, bins) ==
    {c \in Cells : InBins(c, bins) /\ FusionTie(d[1][c], n[1], d[2][c], n[2])}

Fusion(d, n, bins, down) ==
    [c \in Cells |-> IF InBins(c, bins)
                     THEN Fused(d[1][c], n[1], d[2][c], n[2], c \in down)
                     ELSE 0]

\* a loop from x - 1 to x + 1 that adds up F over the indices from 0 to bins - 1
Around(x, bins, F(_)) ==
    (IF x - 1 >= 0 THEN F(x - 1) ELSE 0) + F(x) + (IF x + 1 < bins THEN F(x + 1) ELSE 0)

\* values_sum and border_hits after the four loops around c
ValuesSum(t, c, bins) ==
    Around(c[1], bins[1], LAMBDA h : Around(c[2], bins[2], LAMBDA i :
        Around(c[3], bins[3], LAMBDA j : Around(c[4], bins[4], LAMBDA k : t[<<h, i, j, k>>]))))

BorderHits(t, c, bins) ==
    Around(c[1], bins[1], LAMBDA h : Around(c[2], bins[2], LAMBDA i :
        Around(c[3], bins[3], LAMBDA j : Around(c[4], bins[4], LAMBDA k :
            IF t[<<h, i, j, k>>] # 0 THEN 1 ELSE 0))))

\* the sum of the cells around c, stored without dividing it by their number
BorderValueUndivided(values_sum, border_hits) == ToSignedChar(values_sum)

\* (int) floor ((double) values_sum / border_hits + 0.5)
BorderValue(values_sum, border_hits) ==
    ToSignedChar((2 * values_sum + border_hits) \div (2 * border_hits))

\* the cells a pass assigns
BorderSlots(t, bins) ==
    {c \in Cells : InBins(c, bins) /\ t[c] = 0 /\ BorderHits(t, c, bins) # 0}

\* a pass that assigns every cell with non-zero cells around it
BorderFillEveryCell(t, bins) ==
    [c \in Cells |-> IF InBins(c, bins) /\ BorderHits(t, c, bins) # 0
                     THEN BorderValue(ValuesSum(t, c, bins), BorderHits(t, c, bins))
                     ELSE t[c]]

\* new_tensor after one pass over tensor
BorderFillPass(t, bins) ==
    [c \in Cells |-> IF InBins(c, bins) /\ t[c] = 0 /\ BorderHits(t, c, bins) # 0
                     THEN BorderValue(ValuesSum(t, c, bins), BorderHits(t, c, bins))
                     ELSE t[c]]

\* the loop going on whenever a pass has found border slots
TensorUpdatedOnSlots(t, new_tensor, bins) == BorderSlots(t, bins) # {}

\* border_slots && memcmp (tensor, new_tensor, sizeof (tensor)): the loop goes on
TensorUpdated(t, new_tensor, bins) == BorderSlots(t, bins) # {} /\ new_tensor # t

\* the broadcast with the last axis never collapsed
BroadcastSourceKeepLast(c, bins) ==
    <<IF c[1] < bins[1] THEN c[1] ELSE 0, IF c[2] < bins[2] THEN c[2] ELSE 0,
      IF c[3] < bins[3] THEN c[3] ELSE 0, c[4]>>

\* [h * (h < array_bins_1)] [i * (i < array_bins_2)] [j * (j < array_bins_3)] [k * (k < array_bins_4)]
BroadcastSource(c, bins) ==
    <<IF c[1] < bins[1] THEN c[1] ELSE 0, IF c[2] < bins[2] THEN c[2] ELSE 0,
      IF c[3] < bins[3] THEN c[3] ELSE 0, IF c[4] < bins[4] THEN c[4] ELSE 0>>

\* the place of a cell in the order of the four nested loops
CellNumber(c) == ((c[1] * ModelBins2 + c[2]) * ModelBins3 + c[3]) * ModelBins4 + c[4]

\* the broadcast loop, in place: a cell is assigned what its source cell holds at
\* that moment, which is what the loop has assigned to the source if the loop
\* came to the source earlier, and what the source held before the loop if not
Broadcast(t, bins) ==
    LET assigned[c \in Cells] ==
            LET source == BroadcastSource(c, bins)
            IN  IF CellNumber(source) < CellNumber(c) THEN assigned[source] ELSE t[source]
    IN  [c \in Cells |-> assigned[c]]

\* the self-test loop over one file from record number count on
RECURSIVE TestFrom(_, _, _, _, _)
TestFrom(file, count, alt, t, h) ==
    IF count >= Len(file) THEN h
    ELSE LET tensor_value == t[ClampToBins(file[count + 1], ModelBins)]
         IN  TestFrom(file, count + 1, alt, t,
                      IF TestGate(alt, count) /\ tensor_value > 0
                      THEN [h EXCEPT !.file1_hits = @ + alt + 1]
                      ELSE IF TestGate(alt, count) /\ tensor_value < 0
                      THEN [h EXCEPT !.file2_hits = @ + alt + 1]
                      ELSE h)

SelfTestOf(file, alt, t) == TestFrom(file, 0, alt, t, [file1_hits |-> 0, file2_hits |-> 0])

\* records: three cells that all touch the cell <<1, 1, 1, 1>>
RecordA == <<0, 0, 0, 0>>
RecordB == <<1, 0, 0, 0>>
RecordC == <<2, 1, 1, 1>>
Records == {RecordA, RecordB, RecordC}

RECURSIVE FilesOfLength(_)
FilesOfLength(n) ==
    IF n = 0 THEN {<<>>}
    ELSE {Append(f, r) : f \in FilesOfLength(n - 1), r \in Records}

\* longer files; among them a cell seen in 1 of 3 and in 2 of 5 records, and
\* three cells seen once each
ScriptedFiles ==
    {<<RecordA, RecordB>>,
     <<RecordB, RecordA>>,
     <<RecordC, RecordC>>,
     <<RecordB, RecordC>>,
     <<RecordA, RecordB, RecordB>>,
     <<RecordA, RecordB, RecordC>>,
     <<RecordB, RecordA, RecordC, RecordA>>,
     <<RecordA, RecordA, RecordB, RecordB, RecordB>>}

InputFiles == UNION {FilesOfLength(n) : n \in 0..MaxRecords} \cup ScriptedFiles

\* the filter's side, not running
FilterIdle ==
    /\ InitMain
    /\ skip_mode = SKIP_NOTHING /\ keepalive = 0 /\ threshold = 0
    /\ channels = 2 /\ left_output = OUTPUT_AUDIO
    /\ tensor_file = <<>>
    /\ file_changed = FALSE
    /\ tensor = [i \in 1..TensorBytes |-> 0]
    /\ load_result = -1

\* tensor-gen after its options, the static tensor all zero
InitGen ==
    /\ FilterIdle
    /\ LookupIdle /\ FadeIdle /\ AuxIdle
    /\ pc = "read"
    /\ gen_tensor = [c \in Cells |-> 0]
    /\ files \in InputFiles \X InputFiles
    /\ alternate \in {0, 1}
    /\ gen_dimensions \in 0..3
    /\ dist = <<>> /\ window_count = <<0, 0>> /\ passes = 0
    /\ trained = <<{}, {}>> /\ tested = <<{}, {}>> /\ hits = <<>>

genrest == <<optvars, envvars, mainvars, tensor_file, file_changed, tensor, load_result,
             lookupvars, fadevars, auxvars>>

\* both calls of read_analysis_results
ReadResults ==
    /\ pc = "read"
    /\ LET r1 == read_analysis_results(files[1], alternate, array_bins(gen_dimensions))
           r2 == read_analysis_results(files[2], alternate, array_bins(gen_dimensions))
       IN  /\ dist' = <<r1.dist_array, r2.dist_array>>
           /\ window_count' = <<r1.window_count, r2.window_count>>
    /\ trained' = [f \in {1, 2} |-> {n \in 0..(Len(files[f]) - 1) : ReadGate(alternate, n)}]
    /\ pc' = "fuse"
    /\ UNCHANGED <<gen_tensor, files, alternate, gen_dimensions, passes, tested, hits, genrest>>

\* the fusion loop
Fuse ==
    /\ pc = "fuse"
    /\ \E down \in SUBSET TieCells(dist, window_count, array_bins(gen_dimensions)) :
          gen_tensor' = Fusion(dist, window_count, array_bins(gen_dimensions), down)
    /\ pc' = "fill"
    /\ UNCHANGED <<files, alternate, gen_dimensions, dist, window_count, passes, trained,
                   tested, hits, genrest>>

\* one turn of the border-fill loop
BorderFill ==
    /\ pc = "fill"
    /\ LET bins == array_bins(gen_dimensions)
           new_tensor == BorderFillPass(gen_tensor, bins)
       IN  IF TensorUpdated(gen_tensor, new_tensor, bins)
           THEN gen_tensor' = new_tensor /\ pc' = "fill"
           ELSE gen_tensor' = gen_tensor /\ pc' = "broadcast"
    /\ passes' = passes + 1
    /\ UNCHANGED <<files, alternate, gen_dimensions, dist, window_count, trained, tested,
                   hits, genrest>>

\* the broadcast over the whole tensor
BroadcastStep ==
    /\ pc = "broadcast"
    /\ gen_tensor' = Broadcast(gen_tensor, array_bins(gen_dimensions))
    /\ pc' = "selftest"
    /\ UNCHANGED <<files, alternate, gen_dimensions, dist, window_count, passes, trained,
                   tested, hits, genrest>>

\* the self-test over both files
SelfTest ==
    /\ pc = "selftest"
    /\ hits' = <<SelfTestOf(files[1], alternate, gen_tensor),
                 SelfTestOf(files[2], alternate, gen_tensor)>>
    /\ tested' = [f \in {1, 2} |-> {n \in 0..(Len(files[f]) - 1) : TestGate(alternate, n)}]
    /\ pc' = "gen_done"
    /\ UNCHANGED <<gen_tensor, files, alternate, gen_dimensions, dist, window_count, passes,
                   trained, genrest>>

NextGen == ReadResults \/ Fuse \/ BorderFill \/ BroadcastStep \/ SelfTest

SpecGen == InitGen /\ [][NextGen]_vars

(***************************************************************************)
(* A streamer on its own: any reads and writes after memset and set-up     *)
(***************************************************************************)
\* the largest buffer tried, and the most calls made on one streamer
MaxStreamSize == 3
MaxStreamOps == 7

\* bytes a buffer can hold at the start, and values handed to write_buff
StreamBytes == {0, 255}
WriteValues == {1, 255}
StreamBuffers == UNION {[1..n -> StreamBytes] : n \in 1..MaxStreamSize}

\* a streamer set up over a buffer as both programs do (memset 0, buffer, size)
InitStream ==
    /\ Parked
    /\ LookupIdle /\ FadeIdle /\ GenIdle /\ AnalysisIdle
    /\ \E b \in StreamBuffers :
          streamer = [s |-> Streamer(b, Len(b)), source |-> b,
                    returned |-> <<>>, written |-> <<>>]

StreamOps == Len(streamer.returned) + Len(streamer.written)

\* one call of read_buff, what it returned kept
StreamRead ==
    /\ StreamOps < MaxStreamOps
    /\ LET r == read_buff(streamer.s)
       IN  streamer' = [streamer EXCEPT !.s = r.stream, !.returned = Append(@, r.value)]
    /\ UNCHANGED <<lookupvars, fadevars, genvars, levels, analysis, allmainvars>>

\* one call of write_buff
StreamWrite ==
    /\ StreamOps < MaxStreamOps
    /\ \E v \in WriteValues :
          streamer' = [streamer EXCEPT !.s = write_buff(v, streamer.s), !.written = Append(@, v)]
    /\ UNCHANGED <<lookupvars, fadevars, genvars, levels, analysis, allmainvars>>

NextStream == StreamRead \/ StreamWrite

SpecStream == InitStream /\ [][NextStream]_vars

(***************************************************************************)
(* analyze_window over one level window.  A level is held as twenty times  *)
(* its decimal logarithm (the mean square in half decibels), a whole       *)
(* number here, so that the quotient peak / trough, its square root and    *)
(* its cube root are exact: levels [i] < prev_peak / square_root is        *)
(* 2 * level < 2 * prev_peak - (peak - trough), and so on.                 *)
(***************************************************************************)
MAX_CYCLES == 128

\* the longest window of freely chosen levels, and the length of the long ones
MaxWindow == 7
LongWindow == 135

\* levels: a trough 100 dB below the highest peak, and steps of 30 and 40 dB
LevelValues == {-60, 0, 60, 140}

\* a level that changes side with every sample, and one that takes two samples
\* from trough to peak
SquareWindow == [i \in 1..LongWindow |-> IF i % 2 = 1 THEN 0 ELSE 140]
TriangleWindow == [i \in 1..(2 * LongWindow) |-> <<0, 70, 140, 70>>[((i - 1) % 4) + 1]]

\* a level that takes ten samples from trough to peak and two back, the window
\* ending within its third fall
RampLength == 32
RampWindow ==
    [i \in 1..RampLength |->
        <<0, 14, 28, 42, 56, 70, 84, 98, 112, 126, 140, 10>>[((i - 1) % 12) + 1]]

LevelWindows ==
    UNION {[1..n -> LevelValues] : n \in 1..MaxWindow}
        \cup {SquareWindow, TriangleWindow, RampWindow}

\* peak and trough after the first loop
PeakOf(w) == CHOOSE x \in {w[i] : i \in 1..Len(w)} : \A i \in 1..Len(w) : w[i] <= x
TroughOf(w) == CHOOSE x \in {w[i] : i \in 1..Len(w)} : \A i \in 1..Len(w) : w[i] >= x

\* (int) floor (peak_to_trough_dB + 0.5), peak_to_trough_dB = log10 (peak / trough) * 10.0
RangeOf(peak, trough) == (peak - trough + 1) \div 2

\* the zone of a level: above peak / cube_root, above trough * cube_root, or below
ZoneOf(level, peak, trough) ==
    IF 3 * level > 2 * peak + trough THEN 2
    ELSE IF 3 * level > 2 * trough + peak THEN 1
    ELSE 0

\* trigger_points [index] = value; the list is as long as its highest index written
StoreTrigger(trigger_points, index, value) ==
    IF index < Len(trigger_points)
    THEN [trigger_points EXCEPT ![index + 1] = value]
    ELSE Append(trigger_points, value)

\* the test of the cycle count made only above MAX_CYCLES
CapCyclesAbove(cycles) == IF cycles > MAX_CYCLES THEN cycles - 2 ELSE cycles

\* if (cycles == MAX_CYCLES) cycles -= 2;
CapCycles(cycles) == IF cycles = MAX_CYCLES THEN cycles - 2 ELSE cycles

\* the cycle detection of one pass of the second loop, at level levels [i]
CycleStep(a, level, i) ==
    IF a.cycles % 2 = 1
    THEN IF level > a.prev_peak
         THEN [a EXCEPT !.prev_peak = level, !.prev_peak_pos = i, !.store_index = -1]
         ELSE IF 2 * level < 2 * a.prev_peak - (a.peak - a.trough)
         THEN [a EXCEPT !.trigger_points = StoreTrigger(@, a.cycles, a.prev_peak_pos),
                        !.store_index = a.cycles,
                        !.prev_trough = level,
                        !.cycles = CapCycles(a.cycles + 1)]
         ELSE [a EXCEPT !.store_index = -1]
    ELSE IF level < a.prev_trough
         THEN [a EXCEPT !.prev_trough = level, !.prev_trough_pos = i, !.store_index = -1]
         ELSE IF 2 * level > 2 * a.prev_trough + (a.peak - a.trough)
         THEN [a EXCEPT !.trigger_points = StoreTrigger(@, a.cycles, a.prev_trough_pos),
                        !.store_index = a.cycles,
                        !.prev_peak = level,
                        !.cycles = a.cycles + 1]
         ELSE [a EXCEPT !.store_index = -1]

\* the loop over the triggers from index i on
RECURSIVE Intervals(_, _, _, _)
Intervals(trigger_points, cycles, i, w) ==
    IF i >= cycles THEN w
    ELSE Intervals(trigger_points, cycles, i + 1,
            IF i % 2 = 1
            THEN [w EXCEPT !.attack_time = @ + trigger_points[i + 1] - trigger_points[i],
                           !.attack_count = @ + 1]
            ELSE [w EXCEPT !.decay_time = @ + trigger_points[i + 1] - trigger_points[i],
                           !.decay_count = @ + 1])

NoIntervals == [attack_count |-> 0, attack_time |-> 0, decay_count |-> 0, decay_time |-> 0]

\* the loop begun one trigger late
AttackWalkFromThree(trigger_points, cycles) == Intervals(trigger_points, cycles, 3, NoIntervals)

\* for (int i = 2; i < cycles; ++i)
AttackWalk(trigger_points, cycles) == Intervals(trigger_points, cycles, 2, NoIntervals)

\* attack_ratio as a quotient of whole numbers, after the correction by the
\* correct factor (a + d) / (2 * max (a, d))
AttackRatioByLarger(w) ==
    IF w.attack_count # w.decay_count
    THEN [num |-> w.attack_time * (w.attack_count + w.decay_count),
          den |-> (w.attack_time + w.decay_time)
                      * 2 * (IF w.attack_count > w.decay_count THEN w.attack_count
                             ELSE w.decay_count)]
    ELSE [num |-> w.attack_time, den |-> w.attack_time + w.decay_time]

\* attack_ratio as a quotient of whole numbers: attack_time / (attack_time +
\* decay_time), times (attack_count + decay_count) / (attack_count * 2.0) if
\* the counts differ
AttackRatioOf(w) ==
    IF w.attack_count # w.decay_count
    THEN [num |-> w.attack_time * (w.attack_count + w.decay_count),
          den |-> (w.attack_time + w.decay_time) * 2 * w.attack_count]
    ELSE [num |-> w.attack_time, den |-> w.attack_time + w.decay_time]

Abs(x) == IF x < 0 THEN -x ELSE x

\* error_sum times (num_peaks - 1), the loop from trigger i on;
\* span is trigger_points [num_peaks * 2 - 1] - trigger_points [1]
RECURSIVE ErrorSum(_, _, _, _, _)
ErrorSum(trigger_points, cycles, i, num_peaks, span) ==
    IF i >= cycles - 2 THEN 0
    ELSE Abs((trigger_points[i + 1] - trigger_points[2]) * (num_peaks - 1) - span * (i \div 2))
            + ErrorSum(trigger_points, cycles, i + 2, num_peaks, span)

\* peak_jitter before its limit: (error_sum / (num_peaks - 2)) / period
PeakJitterOf(trigger_points, cycles) ==
    LET num_peaks == cycles \div 2
        span == trigger_points[num_peaks * 2] - trigger_points[2]
    IN  [num |-> ErrorSum(trigger_points, cycles, 3, num_peaks, span),
         den |-> (num_peaks - 2) * span]

\* a quotient of doubles: not a number, infinite, or a number
IsNaN(q) == q.den = 0 /\ q.num = 0
IsInfinite(q) == q.den = 0 /\ q.num # 0
\* q > 1.0
AboveOne(q) ==
    \/ q.den = 0 /\ q.num > 0
    \/ q.den > 0 /\ q.num > q.den
    \/ q.den < 0 /\ q.num < q.den

\* what a conversion of a double outside the range of int, or not a number, can give
UndefinedInts == {-2147483647 - 1, 0, 2147483647}

\* (int) floor (q * 255.0 + 0.5); undefined is what the conversion gives if the
\* double cannot be converted
ToScaledInt(q, undefined) ==
    IF q.den = 0 THEN undefined
    ELSE IF q.den > 0 THEN (510 * q.num + q.den) \div (2 * q.den)
    ELSE (-510 * q.num - q.den) \div (-2 * q.den)

\* a zone fraction after fraction *= (1.0 - fraction) * (3.0 / 4.0) + 1.0
ThirdOf(zone, window_samples) ==
    [num |-> zone * (7 * window_samples - 3 * zone), den |-> 4 * window_samples * window_samples]

\* the locals of analyze_window at its start
StartWindow(w) ==
    [pc |-> "extremes", i |-> 1,
     peak |-> w[1], trough |-> w[1], range |-> 0, range_dB |-> 0,
     prev_peak |-> w[1], prev_trough |-> w[1], prev_peak_pos |-> 0, prev_trough_pos |-> 0,
     zones |-> <<0, 0, 0>>, cycles |-> 0, trigger_points |-> <<>>, store_index |-> -1,
     intervals |-> NoIntervals, attack_ratio |-> [num |-> 1, den |-> 2],
     peak_jitter |-> [num |-> 1, den |-> 1],
     attack_int |-> 0, jitter_int |-> 0, result |-> <<>>,
     histogram_index |-> -1, tensor_index |-> <<>>]

InitAnalyze ==
    /\ Parked
    /\ LookupIdle /\ FadeIdle /\ GenIdle /\ StreamIdle
    /\ levels \in LevelWindows
    /\ analysis = StartWindow(levels)

anrest == <<lookupvars, fadevars, genvars, streamer, levels, allmainvars>>

\* the first loop, and result.range_dB
Extremes ==
    /\ analysis # <<>> /\ analysis.pc = "extremes"
    /\ LET peak == PeakOf(levels)
           trough == TroughOf(levels)
       IN  analysis' = [analysis EXCEPT !.pc = "walk", !.peak = peak, !.trough = trough,
                                        !.range = RangeOf(peak, trough),
                                        !.range_dB = ToByte(RangeOf(peak, trough))]
    /\ UNCHANGED anrest

\* one pass of the second loop: the zone of levels [i], the cycle detection
Walk ==
    /\ analysis # <<>> /\ analysis.pc = "walk"
    /\ analysis.i < Len(levels)
    /\ LET level == levels[analysis.i + 1]
           zone == ZoneOf(level, analysis.peak, analysis.trough)
           stepped == CycleStep(analysis, level, analysis.i)
       IN  analysis' = [stepped EXCEPT !.zones[zone + 1] = @ + 1, !.i = @ + 1]
    /\ UNCHANGED anrest

\* the attack ratio once the loop is through, or exit (1)
AttackRatio ==
    /\ analysis # <<>> /\ analysis.pc = "walk"
    /\ analysis.i >= Len(levels)
    /\ IF analysis.cycles >= 4
       THEN LET w == AttackWalk(analysis.trigger_points, analysis.cycles)
            IN  IF w.attack_count # 0 /\ w.decay_count # 0
                THEN analysis' = [analysis EXCEPT !.pc = "jitter", !.intervals = w,
                                                  !.attack_ratio = AttackRatioOf(w),
                                                  !.store_index = -1]
                ELSE analysis' = [analysis EXCEPT !.pc = "exit", !.intervals = w,
                                                  !.store_index = -1]
       ELSE analysis' = [analysis EXCEPT !.pc = "jitter", !.store_index = -1]
    /\ UNCHANGED anrest

\* the peak jitter, the zone fractions, the result, the histograms and the
\* lookup of the result
Results ==
    /\ analysis # <<>> /\ analysis.pc = "jitter"
    /\ \E undefined \in UndefinedInts :
          LET a == analysis
              window_samples == Len(levels)
              jitter == IF a.cycles >= 6
                        THEN LET q == PeakJitterOf(a.trigger_points, a.cycles)
                             IN  IF AboveOne(q) THEN [num |-> 1, den |-> 1] ELSE q
                        ELSE [num |-> 1, den |-> 1]
              attack_int == ToScaledInt(a.attack_ratio, undefined)
              jitter_int == ToScaledInt(jitter, undefined)
              res == [range_dB |-> a.range_dB,
                      cycles |-> ToByte(a.cycles),
                      low_third |-> ToByte(ToScaledInt(ThirdOf(a.zones[1], window_samples), 0)),
                      mid_third |-> ToByte(ToScaledInt(ThirdOf(a.zones[2], window_samples), 0)),
                      high_third |-> ToByte(ToScaledInt(ThirdOf(a.zones[3], window_samples), 0)),
                      attack_ratio |-> ToByte(attack_int),
                      peak_jitter |-> ToByte(jitter_int)]
          IN  analysis' = [a EXCEPT !.pc = "return", !.peak_jitter = jitter,
                                    !.attack_int = attack_int, !.jitter_int = jitter_int,
                                    !.result = res,
                                    !.histogram_index = res.range_dB,
                                    !.tensor_index = analysis_result_to_tensor_index(res)]
    /\ UNCHANGED anrest

NextAnalyze == Extremes \/ Walk \/ AttackRatio \/ Results

SpecAnalyze == InitAnalyze /\ [][NextAnalyze]_vars

(***************************************************************************)
(* Properties                                                              *)
(***************************************************************************)
\* the samples of the n input frames from frame `from` on, interleaved
InputFrames(from, n) ==
    [i \in 1..(2 * n) |-> InputSample(from + (i - 1) \div 2, (i - 1) % 2)]

Aborted == pc \in {"abort_transition", "abort_full"}

PlainStereo ==
    channels = 2 /\ left_output = OUTPUT_AUDIO /\ right_output = OUTPUT_AUDIO

\* C1: after every processed frame, whatever the skip mode, the keep-alive option
\* and the threshold, the frames written, the frames discarded and the frames
\* still in the output ring add up to the frames read.
Conservation ==
    pc = "loop" =>
        samples_written + samples_discarded + output_buffer_index = num_samples

\* a keep-alive crossfade has just been made, after frames were written and discarded
ConservationWitness ==
    /\ pc = "loop" /\ report.flush = "keepalive"
    /\ samples_written > crossfade_buff_len
    /\ samples_discarded > 0 /\ output_buffer_index > 0

\* C2: at the end of stdin the frames left in the ring are all written (the current
\* mode is kept) or all discarded (it is skipped), and then every frame read has
\* been written or discarded.
DrainAccounts ==
    [][(pc = "loop" /\ pc' = "done") =>
          /\ num_samples' = num_samples
          /\ samples_written' + samples_discarded' = num_samples
          /\ IF WriteData(current_mode)
             THEN /\ samples_written' = samples_written + output_buffer_index
                  /\ samples_discarded' = samples_discarded
                  /\ stdout' = stdout \o output_buffer
             ELSE /\ samples_discarded' = samples_discarded + output_buffer_index
                  /\ samples_written' = samples_written
                  /\ stdout' = stdout]_vars

\* the drain wrote the rest of the ring after frames had been written and discarded
DrainWitness ==
    /\ pc = "done" /\ report.flush = "final wrote"
    /\ samples_discarded > 0
    /\ samples_written + samples_discarded = num_samples

\* C3: with -p, stereo input and no debug override, what is on stdout is at every
\* moment the input from its first frame on, unchanged; nothing is discarded, the
\* run does not abort, and at the end all of the input has been written.
PassThrough ==
    (skip_mode = SKIP_NOTHING /\ PlainStereo) =>
        /\ stdout = InputFrames(0, samples_written)
        /\ samples_discarded = 0
        /\ ~Aborted
        /\ pc = "done" => samples_written = num_samples

\* a pass-through run that confirmed TALK after MUSIC and flushed before its end
PassThroughWitness ==
    /\ skip_mode = SKIP_NOTHING /\ PlainStereo /\ pc = "done"
    /\ current_mode = MODE_TALK /\ run.base_mode = MODE_MUSIC
    /\ samples_written > output_buffer_index
    /\ output_buffer_index > 0

\* C4: with -n nothing is ever written, with or without -k: no keep-alive
\* crossfade, no splice at a confirmation (the ring then still holds the input as
\* read), and at the end every frame read has been discarded.
SkipEverything ==
    skip_mode = SKIP_EVERYTHING =>
        /\ samples_written = 0
        /\ stdout = <<>>
        /\ report.flush \notin {"keepalive", "wrote", "final wrote"}
        /\ report.splice = "none"
        /\ report.detected_mode # MODE_NOTHING =>
              output_buffer = InputFrames(num_samples - output_buffer_index,
                                          output_buffer_index)
        /\ pc = "done" => samples_discarded = num_samples

\* a -n -k run that ended in MUSIC after more than a flush of discarded audio
SkipEverythingWitness ==
    /\ skip_mode = SKIP_EVERYTHING /\ keepalive = 1 /\ pc = "done"
    /\ current_mode = MODE_MUSIC
    /\ samples_discarded = num_samples
    /\ num_samples > FLUSH_SECONDS * sample_rate + output_buffer_index

\* C5 as stated: a confirmation comes at the 100th (MUSIC) or 50th (TALK) step of
\* a run of steps of that tendency, and at no other step.
ConfirmAtFullRun ==
    report.stepped =>
        /\ report.detected_mode = MODE_MUSIC <=>
              (run.tendency = MODE_MUSIC /\ run.base_mode # MODE_MUSIC
                  /\ run.steps = MinMusicSteps)
        /\ report.detected_mode = MODE_TALK <=>
              (run.tendency = MODE_TALK /\ run.base_mode # MODE_TALK
                  /\ run.steps = MinTalkSteps)

\* C5, amended: a run of steps of one tendency that begins in another mode with
\* the counter of its tendency at c is confirmed at its step number 100 - c
\* (MUSIC) or 50 - c (TALK), and at no other step: at the 100th or 50th step
\* exactly when the counter was 0 at the first step of the run.
ConfirmLatency ==
    report.stepped =>
        /\ report.detected_mode = MODE_MUSIC <=>
              (run.tendency = MODE_MUSIC /\ run.base_mode # MODE_MUSIC
                  /\ run.steps = MinMusicSteps - run.base_up)
        /\ report.detected_mode = MODE_TALK <=>
              (run.tendency = MODE_TALK /\ run.base_mode # MODE_TALK
                  /\ run.steps = MinTalkSteps - run.base_up)

\* MUSIC confirmed at the 100th step of a run that began in TALK with the counter at 0
ConfirmLatencyWitness ==
    /\ report.detected_mode = MODE_MUSIC
    /\ run.base_mode = MODE_TALK /\ run.base_up = 0
    /\ run.steps = MinMusicSteps

\* the counter of the mode that is not the current one, now and after the step
Dissenting == IF current_mode = MODE_MUSIC THEN talk_up_counter ELSE music_up_counter
DissentingNext == IF current_mode = MODE_MUSIC THEN talk_up_counter' ELSE music_up_counter'

PendCancelled ==
    /\ DissentingNext = 0
    /\ report'.detected_mode = MODE_NOTHING
    /\ current_mode' = current_mode

\* C6 as stated: in MUSIC or TALK with the other counter above 0, any step that
\* brings pend_up_counter to MAX_PEND clears that counter, confirms nothing and
\* leaves the mode.
PendCancelAtAnyStep ==
    [][(pc = "loop" /\ report'.stepped /\ current_mode # MODE_NOTHING
            /\ Dissenting > 0
            /\ pend_up_counter < MaxPendSteps /\ pend_up_counter' >= MaxPendSteps)
          => PendCancelled]_vars

\* C6, amended: the same for the steps of the current mode's own tendency, which
\* are the only ones that cancel, and for pend_up_counter at or above MAX_PEND (a
\* step of the other tendency can take it past MAX_PEND without cancelling).
PendCancel ==
    [][(pc = "loop" /\ report'.stepped /\ current_mode # MODE_NOTHING
            /\ Dissenting > 0
            /\ run'.tendency = current_mode
            /\ pend_up_counter' # pend_up_counter
            /\ pend_up_counter' >= MaxPendSteps)
          => (PendCancelled /\ report'.cancelled)]_vars

\* a pending MUSIC detection has just been cancelled in TALK
PendCancelWitness ==
    /\ report.cancelled /\ current_mode = MODE_TALK
    /\ pend_up_counter >= MaxPendSteps
    /\ music_up_counter = 0 /\ report.detected_mode = MODE_NOTHING

\* C7: the frames that the crossfade of a pending detection starts with are kept
\* in the ring until the detection is confirmed or dropped, so that every splice
\* finds crossfade_start >= 0 and the run never aborts on a transition.
TransitionInRing ==
    /\ pc # "abort_transition"
    /\ report.splice # "none" => report.crossfade_start >= 0
    /\ (pc = "loop" /\ (music_up_counter > 0 \/ talk_up_counter > 0)) =>
          num_samples - output_buffer_index
              <= transition_sample - crossfade_buff_len \div 2

\* a splice into a skip made after earlier audio had been flushed
TransitionInRingWitness ==
    /\ report.splice = "fade_out" /\ report.crossfade_start > 0
    /\ samples_discarded > 0
    /\ skip_mode \in {SKIP_MUSIC, SKIP_TALK}

\* C8: the ring index stays within 0..output_buff_len, a frame is stored only
\* below output_buff_len, and nothing removes more frames than the ring holds.
RingBound ==
    /\ 0 <= output_buffer_index /\ output_buffer_index <= output_buff_len
    /\ Len(output_buffer) = 2 * output_buffer_index
    /\ pc = "loop" => output_buffer_index < output_buff_len

\* the ring has just been flushed because it was full
RingBoundWitness ==
    /\ report.flush \in {"wrote", "discarded", "keepalive"}
    /\ output_buffer_index + report.available_samples = output_buff_len
\* the file of the current state, taken apart as the format lays it out
FileHeaderOk ==
    /\ Len(tensor_file) >= HeaderSize
    /\ SubSeq(tensor_file, 1, 4) = <<1, 0, 0, 0>>
    /\ SubSeq(tensor_file, 9, 12) = <<48, 24, 16, 16>>
FilePayload == SubSeq(tensor_file, HeaderSize + 1, Len(tensor_file))
FileChecksum == SubSeq(tensor_file, 5, 8)
\* the sum of the bytes of a tensor is below 2^32, so it is its own residue
SumOf(bytes) == Le32(SeqSum(bytes))
Loaded == load_result # -1
DiffersInOneByte(a, b) ==
    Len(a) = Len(b) /\ Cardinality({i \in 1..Len(a) : a[i] # b[i]}) = 1

\* C9: the file write_tensor_file writes for a tensor T loads successfully, and
\* the tensor loaded from it is T byte for byte
TensorRoundTrip ==
    (Loaded /\ ~file_changed) => (load_result = 1 /\ tensor = gen_tensor)

\* C10: the load succeeds exactly when the file has a 12-byte header with
\* version 1 and dimensions 48, 24, 16, 16, its payload decompresses without
\* error, is consumed to its last byte and yields exactly sizeof (tensor) bytes,
\* and the header's checksum is their sum modulo 2^32; a failed load ends the
\* filter with status 1 before any audio is read; a payload that decompresses
\* to the saved tensor with one byte changed is rejected
TensorLoadValidation ==
    Loaded =>
        /\ (load_result = 1) <=>
              /\ FileHeaderOk
              /\ ~LzwDecode(FilePayload).error
              /\ LzwDecode(FilePayload).reads = Len(FilePayload)
              /\ Len(LzwDecode(FilePayload).out) = TensorBytes
              /\ FileChecksum = SumOf(LzwDecode(FilePayload).out)
        /\ load_result = 0 =>
              /\ pc = "exit_tensor" /\ ExitStatus = 1
              /\ num_samples = 0 /\ stdout = <<>>
        /\ (/\ FileHeaderOk
            /\ FileChecksum = SumOf(TensorToBytes(gen_tensor))
            /\ DiffersInOneByte(LzwDecode(FilePayload).out, TensorToBytes(gen_tensor)))
              => load_result = 0

\* a file whose payload decompresses, completely and without error, to the saved
\* tensor with one byte changed has been refused and the filter has exited
TensorLoadValidationWitness ==
    /\ Loaded /\ file_changed /\ FileHeaderOk
    /\ ~LzwDecode(FilePayload).error
    /\ LzwDecode(FilePayload).reads = Len(FilePayload)
    /\ FileChecksum = SumOf(TensorToBytes(gen_tensor))
    /\ DiffersInOneByte(LzwDecode(FilePayload).out, TensorToBytes(gen_tensor))
    /\ load_result = 0 /\ pc = "exit_tensor"


Smaller(a, b) == IF a < b THEN a ELSE b

\* C11: the cell looked up for an analysis result is
\* T[min(range_dB, 47)][min(cycles >> 1, 23)][min(low_third >> 4, 15)][min(mid_third >> 4, 15)],
\* every index is inside its axis, and the builder's indices and the filter's
\* pointer name the same cell
LookupClamped ==
    tensor_index # <<>> =>
        /\ tensor_index = <<Smaller(result.range_dB, 47), Smaller(result.cycles \div 2, 23),
                            Smaller(result.low_third \div 16, 15),
                            Smaller(result.mid_third \div 16, 15)>>
        /\ tensor_index[1] \in 0..47 /\ tensor_index[2] \in 0..23
        /\ tensor_index[3] \in 0..15 /\ tensor_index[4] \in 0..15
        /\ tensor_pointer = ((tensor_index[1] * 24 + tensor_index[2]) * 16
                                + tensor_index[3]) * 16 + tensor_index[4]
        /\ tensor_pointer \in 0..(48 * 24 * 16 * 16 - 1)

\* a result with every field beyond its axis has been looked up in the last cell
LookupClampedWitness ==
    /\ result = [range_dB |-> 255, cycles |-> 255, low_third |-> 255, mid_third |-> 255]
    /\ tensor_index = <<47, 23, 15, 15>>
    /\ tensor_pointer = 48 * 24 * 16 * 16 - 1

\* C12 as stated: over a constant input x the faded-out and the faded-in
\* sample at every position add up to x
FadesComplementary ==
    faded_out # <<>> =>
        \A i \in 1..Len(fade_input) : faded_out[i] + faded_in[i] = fade_input[i]

\* x * k is a multiple of n
Divides(n, a) == a % n = 0

\* C12: over a constant input x and a fade of n samples, the faded-out and the
\* faded-in sample at position i (from 0) add up to x when n divides
\* x * (i + 1), and otherwise to the value one nearer to zero than x
FadesNearlyComplementary ==
    faded_out # <<>> =>
        \A i \in 1..Len(fade_input) :
            LET x == fade_input[i]
                n == Len(fade_input)
            IN  faded_out[i] + faded_in[i] =
                    IF Divides(n, x * i) THEN x
                    ELSE IF x > 0 THEN x - 1 ELSE x + 1

\* a fade in which one position restores x and another loses one to truncation
FadesNearlyComplementaryWitness ==
    /\ faded_out # <<>>
    /\ Len(fade_input) > 1
    /\ \E i \in 1..Len(fade_input) : faded_out[i] + faded_in[i] = fade_input[i]
    /\ \E i \in 1..Len(fade_input) : faded_out[i] + faded_in[i] = fade_input[i] - 1
    /\ fade_input[1] = 32767

\* C13: a border-fill pass assigns only cells that are 0 before it; a cell that
\* is not 0 before a pass has the same value after it, and so after every
\* later pass
BorderFillMonotone ==
    [][pc = "fill" =>
          \A c \in Cells : gen_tensor[c] # 0 => gen_tensor'[c] = gen_tensor[c]]_vars

\* two passes have run: the second has filled a cell seen in neither file, the
\* cell seen only in the first file still holds 99
BorderFillMonotoneWitness ==
    /\ pc = "fill" /\ passes = 2
    /\ dist[1][RecordC] = 0 /\ dist[2][RecordC] = 0
    /\ gen_tensor[RecordC] # 0
    /\ dist[1][RecordA] > 0 /\ dist[2][RecordA] = 0
    /\ gen_tensor[RecordA] = 99

\* C14: every cell of the builder's tensor is in -99..99, after the fusion,
\* after every border-fill pass and after the broadcast
TensorRange == \A c \in Cells : gen_tensor[c] >= -99 /\ gen_tensor[c] <= 99

\* after the broadcast the tensor holds both ends of the range, a fused value
\* between them and a border-filled cell
TensorRangeWitness ==
    /\ pc = "selftest" /\ passes > 1
    /\ \E c \in Cells : gen_tensor[c] = 99
    /\ \E c \in Cells : gen_tensor[c] = -99
    /\ \E c \in Cells : dist[1][c] > 0 /\ dist[2][c] > 0 /\ gen_tensor[c] \notin {-99, 0, 99}
    /\ \E c \in Cells : dist[1][c] = 0 /\ dist[2][c] = 0 /\ gen_tensor[c] # 0

\* floor (99 * w1 - 99 * w2 + 1/2) for w1 = h1 / n1 and w2 = h2 / n2, both
\* divided by the larger of the two
RoundedDifference(h1, n1, h2, n2) ==
    IF h1 * n2 > h2 * n1
    THEN (2 * 99 * h1 * n2 - 2 * 99 * h2 * n1 + h1 * n2) \div (2 * h1 * n2)
    ELSE (2 * 99 * h1 * n2 - 2 * 99 * h2 * n1 + h2 * n1) \div (2 * h2 * n1)

\* C15 as stated: after the fusion a cell is 99 if only the first file has it,
\* -99 if only the second has it, 0 if neither has it, and otherwise
\* floor (99 * w1 - 99 * w2 + 0.5) for the two rates H1 / N1 and H2 / N2
\* rescaled so that the larger is 1
FusionFormula ==
    (pc = "fill" /\ passes = 0) =>
        \A c \in Cells :
            InBins(c, array_bins(gen_dimensions)) =>
                LET H1 == dist[1][c]
                    H2 == dist[2][c]
                IN  gen_tensor[c] =
                        IF H1 > 0 /\ H2 = 0 THEN 99
                        ELSE IF H1 = 0 /\ H2 > 0 THEN -99
                        ELSE IF H1 = 0 /\ H2 = 0 THEN 0
                        ELSE RoundedDifference(H1, window_count[1], H2, window_count[2])

\* -d<n> with n < 4 collapses the axes after the n-th
Collapsed(a, d) == d \in 1..3 /\ a > d

\* the cell with every collapsed index set to 0
Projection(c, d) ==
    <<c[1], IF Collapsed(2, d) THEN 0 ELSE c[2], IF Collapsed(3, d) THEN 0 ELSE c[3],
      IF Collapsed(4, d) THEN 0 ELSE c[4]>>

\* C16: with -d<n>, n < 4, the broadcast leaves in every cell of the full
\* tensor the value that the cell with the collapsed indices set to 0 had
\* after the border fill, and does not change the cells whose collapsed
\* indices are 0 already
BroadcastProjects ==
    [][(pc = "broadcast" /\ gen_dimensions \in 1..3) =>
          \A c \in Cells :
              /\ gen_tensor'[c] = gen_tensor[Projection(c, gen_dimensions)]
              /\ Projection(c, gen_dimensions) = c => gen_tensor'[c] = gen_tensor[c]]_vars

\* after the broadcast with -d1 the far corner holds the value of its
\* projection, which is not the value of the first cell
BroadcastProjectsWitness ==
    /\ pc = "selftest" /\ gen_dimensions = 1
    /\ gen_tensor[<<2, 1, 1, 1>>] = gen_tensor[<<2, 0, 0, 0>>]
    /\ gen_tensor[<<2, 1, 1, 1>>] # 0
    /\ gen_tensor[<<2, 1, 1, 1>>] # gen_tensor[<<0, 1, 1, 1>>]

\* the record numbers of a file, from 0
RecordNumbers(f) == 0..(Len(files[f]) - 1)

\* the cell of the histogram that record n of file f is counted in
TrainedCell(f, n) == ClampToBins(files[f][n + 1], array_bins(gen_dimensions))

\* the records of file f that the self-test counts as a hit for either class
TestedHits(f, positive) ==
    {n \in tested[f] : IF positive THEN gen_tensor[files[f][n + 1]] > 0
                       ELSE gen_tensor[files[f][n + 1]] < 0}

\* C17 as stated: with -a a record is added to the histogram exactly if it adds
\* nothing to the hit counts of the self-test; without -a every record is added
\* to the histogram and adds to a hit count
AlternateSplitByHits ==
    pc = "gen_done" =>
        \A f \in {1, 2} : \A n \in RecordNumbers(f) :
            LET scored == n \in TestedHits(f, TRUE) \cup TestedHits(f, FALSE)
            IN  IF alternate = 1 THEN n \in trained[f] <=> ~scored
                ELSE n \in trained[f] /\ scored

\* C17: with -a a record is added to the histogram, with weight 2, exactly if
\* the self-test does not examine it, so trained and examined records are
\* disjoint and together are all records; without -a every record is added
\* with weight 1 and examined; an examined record adds the weight to file1_hits
\* if its cell is positive, to file2_hits if negative, to neither if it is 0
AlternateSplit ==
    pc = "gen_done" =>
        \A f \in {1, 2} :
            /\ alternate = 1 =>
                  /\ \A n \in RecordNumbers(f) : n \in trained[f] <=> n \notin tested[f]
                  /\ trained[f] \cap tested[f] = {}
                  /\ trained[f] \cup tested[f] = RecordNumbers(f)
                  /\ \A c \in Cells :
                        dist[f][c] = 2 * Cardinality({n \in trained[f] : TrainedCell(f, n) = c})
                  /\ hits[f].file1_hits = 2 * Cardinality(TestedHits(f, TRUE))
                  /\ hits[f].file2_hits = 2 * Cardinality(TestedHits(f, FALSE))
            /\ alternate = 0 =>
                  /\ trained[f] = RecordNumbers(f) /\ tested[f] = RecordNumbers(f)
                  /\ \A c \in Cells :
                        dist[f][c] = Cardinality({n \in RecordNumbers(f) : TrainedCell(f, n) = c})
                  /\ hits[f].file1_hits = Cardinality(TestedHits(f, TRUE))
                  /\ hits[f].file2_hits = Cardinality(TestedHits(f, FALSE))

\* a run with -a over a file of five records: two trained, three tested, and
\* the self-test has counted hits
AlternateSplitWitness ==
    /\ pc = "gen_done" /\ alternate = 1
    /\ Len(files[1]) = 5
    /\ trained[1] = {1, 3} /\ tested[1] = {0, 2, 4}
    /\ hits[1].file1_hits + hits[1].file2_hits > 0

\* the generator started at 0x31415926 after 1, 2, 3, 4 and 5 steps:
\* 0xe2d4393b, 0x4a6f5a74, 0x5c864ccd, 0x6bde8002, 0x5209801f
DitherValues == <<<<58068, 14651>>, <<19055, 23156>>, <<23686, 19661>>, <<27614, 32770>>,
                  <<21001, 32799>>>>

\* 15 * x + 1 or 15 * x - 1 modulo 2^32, whichever has the last bit of 15 * x changed
FifteenTimes(x) ==
    LET low == 15 * x[2]
        high == 15 * x[1] + low \div 65536
    IN  <<high % 65536, (low % 65536) + (IF low % 2 = 0 THEN 1 ELSE -1)>>

ResultsRingBound ==
    /\ [](results_buffer_count >= 0 /\ results_buffer_count <= 25)
    /\ [][(num_windows' # num_windows \/ results_buffer' # results_buffer) =>
              results_buffer_count < 25]_vars

\* the ring after more windows than it holds: it has been shifted and holds
\* AVERAGE_COUNT - 1 values
ResultsRingBoundWitness ==
    /\ num_windows > AVERAGE_COUNT + 1
    /\ results_buffer_count = AVERAGE_COUNT - 1

\* C20: whenever the flush condition fires (the ring is full, or 60 seconds are
\* available) available_samples is above 0, so the filter never stops with
\* 'buffer full with no confirmed samples'
ForcedFlushConfirmed ==
    /\ pc # "abort_full"
    /\ report.flush \in {"wrote", "discarded", "keepalive"} => report.available_samples > 0

\* the first flush of a run comes with the ring more than nine tenths full:
\* nothing was confirmed for that long, and confirmed samples are there in time
ForcedFlushConfirmedWitness ==
    /\ pc = "loop"
    /\ report.flush \in {"wrote", "discarded", "keepalive"}
    /\ report.available_samples > 0
    /\ samples_written + samples_discarded = report.available_samples
    /\ 10 * num_samples > 9 * output_buff_len

\* the ring as the frame being processed finds it once its own samples are stored
RingWithFrame == output_buffer \o <<LeftOut(num_samples), RightOut(num_samples)>>

\* the frames ahead of the crossfade at the confirmation being made
SpliceStart ==
    transition_sample' - num_samples' + output_buffer_index + 1 - crossfade_buff_len \div 2

\* what the flush of the same frame, which comes after the splice, removed from
\* the ring, and how much of that it wrote
FlushedAfter == IF report'.flush = "none" THEN 0 ELSE report'.available_samples
WrittenAfter ==
    IF report'.flush = "wrote" THEN report'.available_samples
    ELSE IF report'.flush = "keepalive" THEN crossfade_buff_len ELSE 0

\* C21: on a confirmation with -m or -t the crossfade_start frames at the head of
\* the ring are written if the confirmed mode is the skipped one and discarded
\* if it is the kept one; the ring is then slid so that its first frame is input
\* frame transition_sample - L_xf/2, and what follows the crossfade stays in
\* the ring as it was, neither written nor discarded by the splice (a flush in
\* the same frame, after the splice, is accounted for apart).
TransitionSplice ==
    [][(pc = "loop" /\ report'.detected_mode # MODE_NOTHING
            /\ skip_mode \in {SKIP_MUSIC, SKIP_TALK}) =>
          /\ pc' = "loop"
          /\ SpliceStart >= 0
          /\ report'.crossfade_start = SpliceStart
          /\ IF skip_mode = SkipOf(report'.detected_mode)
             THEN /\ SubSeq(stdout', 1, Len(stdout) + 2 * SpliceStart)
                        = stdout \o Take(RingWithFrame, 2 * SpliceStart)
                  /\ Len(stdout') = Len(stdout) + 2 * (SpliceStart + WrittenAfter)
                  /\ samples_written' = samples_written + SpliceStart + WrittenAfter
                  /\ samples_discarded' = samples_discarded + FlushedAfter - WrittenAfter
                  /\ FlushedAfter = 0 => output_buffer' = Drop(RingWithFrame, 2 * SpliceStart)
             ELSE /\ Take(stdout', Len(stdout)) = stdout
                  /\ Len(stdout') = Len(stdout) + 2 * WrittenAfter
                  /\ samples_written' = samples_written + WrittenAfter
                  /\ samples_discarded'
                        = samples_discarded + SpliceStart + FlushedAfter - WrittenAfter
                  /\ FlushedAfter = 0 =>
                        Drop(output_buffer', 2 * crossfade_buff_len)
                            = Drop(RingWithFrame, 2 * (SpliceStart + crossfade_buff_len))
          /\ output_buffer_index' = output_buffer_index + 1 - SpliceStart - FlushedAfter
          /\ samples_written' + samples_discarded'
                = transition_sample' - crossfade_buff_len \div 2 + FlushedAfter
          /\ (PlainStereo /\ FlushedAfter = 0) =>
                Drop(output_buffer', 2 * crossfade_buff_len)
                    = InputFrames(transition_sample' + crossfade_buff_len \div 2,
                                  output_buffer_index' - crossfade_buff_len)]_vars

\* a skip has just been left: frames were discarded up to the crossfade, after
\* the frames ahead of the skip had been written
TransitionSpliceWitness ==
    /\ report.splice = "fade_in" /\ report.crossfade_start > crossfade_buff_len
    /\ samples_written > 0
    /\ samples_written + samples_discarded = transition_sample - crossfade_buff_len \div 2
    /\ output_buffer_index > crossfade_buff_len

\* C22 as stated: the transition_sample that comes with a MUSIC (TALK)
\* confirmation is what was latched when music_up_counter (talk_up_counter)
\* last rose from 0, whatever the other counter did in between.
TransitionFromOwnLatch ==
    /\ report.detected_mode = MODE_MUSIC => transition_sample = trace.music_latch
    /\ report.detected_mode = MODE_TALK => transition_sample = trace.talk_latch

\* C23: music_up_counter is within 0..99 and talk_up_counter within 0..49 after
\* every frame; in MUSIC music_up_counter is 0 and in TALK talk_up_counter is 0;
\* no confirmation is for the mode that is current, and once a mode is confirmed
\* current_mode is never MODE_NOTHING again.
ModeCounters ==
    /\ [](/\ music_up_counter >= 0 /\ music_up_counter <= 99
          /\ talk_up_counter >= 0 /\ talk_up_counter <= 49
          /\ current_mode = MODE_MUSIC => music_up_counter = 0
          /\ current_mode = MODE_TALK => talk_up_counter = 0
          /\ current_mode \in {MODE_NOTHING, MODE_MUSIC, MODE_TALK})
    /\ [][/\ report'.detected_mode # MODE_NOTHING =>
                (report'.detected_mode # current_mode
                    /\ current_mode' = report'.detected_mode)
          /\ report'.detected_mode = MODE_NOTHING => current_mode' = current_mode
          /\ current_mode # MODE_NOTHING => current_mode' # MODE_NOTHING]_vars

\* in TALK, after MUSIC had been confirmed before, the music counter is one step
\* short of a detection
ModeCountersWitness ==
    /\ current_mode = MODE_TALK /\ talk_up_counter = 0
    /\ music_up_counter = 99
    /\ report.stepped /\ run.tendency = MODE_MUSIC
    /\ samples_written > 0 /\ samples_discarded > 0
    /\ skip_mode = SKIP_MUSIC

\* C24 as stated: the sum compared with threshold * n is a sum of n lookup
\* values, so that the music tendency is that the mean of the summed values is
\* above the threshold.
SmoothedMean ==
    report.stepped =>
        /\ report.summed = report.multiplier
        /\ run.tendency = MODE_MUSIC <=> report.sum > threshold * report.summed

\* a state-machine step has just been taken and has left both counters at 0
SettledStep ==
    report'.stepped /\ pc' = "loop" /\ music_up_counter' = 0 /\ talk_up_counter' = 0

\* C25: a state-machine step that leaves both counters at 0 sets confirmed_sample
\* to num_samples - ((WINDOW_SECONDS + AVERAGE_SECONDS) * sample_rate
\* + step_samples + L_xf) / 2; nothing else changes it; it never decreases, and
\* it is 0 as long as no mode is confirmed.
ConfirmedUpdate ==
    /\ [](current_mode = MODE_NOTHING => confirmed_sample = 0)
    /\ [][/\ SettledStep =>
                confirmed_sample' = num_samples'
                    - ((WINDOW_SECONDS + AVERAGE_SECONDS) * sample_rate + step_samples
                            + crossfade_buff_len) \div 2
          /\ ~SettledStep => confirmed_sample' = confirmed_sample
          /\ confirmed_sample' >= confirmed_sample]_vars

\* the step that cancels a pending detection brings confirmed_sample up again,
\* after a stretch in which it stood still
ConfirmedUpdateWitness ==
    /\ report.stepped /\ report.cancelled
    /\ music_up_counter = 0 /\ talk_up_counter = 0
    /\ confirmed_sample > 0
    /\ report.available_samples > MaxPendSteps * step_samples

\* C26: while no mode is confirmed every state-machine step increments one of
\* the two counters and none is decremented, so that a mode is confirmed at the
\* 149th step at the latest, which is the 173rd analysis window.
FirstConfirmation ==
    (current_mode = MODE_NOTHING /\ pc = "loop") =>
        /\ num_windows <= 172
        /\ music_up_counter + talk_up_counter
              = (IF num_windows > 24 THEN num_windows - 24 ELSE 0)
        /\ music_up_counter + talk_up_counter <= 148

\* the first confirmation of a run made at its 149th step, by the window 173
FirstConfirmationWitness ==
    /\ report.detected_mode = MODE_MUSIC /\ run.base_mode = MODE_NOTHING
    /\ num_windows = 173
    /\ talk_up_counter = 49
    /\ current_mode = MODE_MUSIC

\* C27: audio of no confirmed mode is treated as TALK by the flush, the
\* keep-alive and the final drain; an input that ends before any confirmation is
\* written in full with -m and leaves stdout empty with -t, with or without -k.
UnconfirmedAsTalk ==
    /\ WriteData(MODE_NOTHING) <=> WriteData(MODE_TALK)
    /\ SkipOf(MODE_NOTHING) = SkipOf(MODE_TALK)
    /\ (current_mode = MODE_NOTHING /\ pc = "loop") =>
          (samples_written = 0 /\ samples_discarded = 0 /\ stdout = <<>>)
    /\ (current_mode = MODE_NOTHING /\ pc = "done" /\ skip_mode = SKIP_MUSIC) =>
          /\ samples_written = num_samples /\ samples_discarded = 0
          /\ Len(stdout) = 2 * num_samples
          /\ PlainStereo => stdout = InputFrames(0, num_samples)
    /\ (current_mode = MODE_NOTHING /\ pc = "done" /\ skip_mode = SKIP_TALK) =>
          /\ samples_written = 0 /\ samples_discarded = num_samples
          /\ stdout = <<>>

\* a -m run whose input ended with both detections under way and none
\* confirmed: all of it was written by the final drain
UnconfirmedAsTalkWitness ==
    /\ current_mode = MODE_NOTHING /\ pc = "done" /\ skip_mode = SKIP_MUSIC
    /\ music_up_counter > 0 /\ talk_up_counter > 0
    /\ report.flush = "final wrote"
    /\ samples_written = num_samples /\ stdout # <<>>

\* -k is given, the current mode is the skipped one and both counters are 0
Quiet ==
    /\ pc = "loop" /\ keepalive = 1 /\ skip_mode = SkipOf(current_mode)
    /\ music_up_counter = 0 /\ talk_up_counter = 0

\* C28: with -k, while the current mode is the skipped one and no detection is
\* pending, the only frames written are those of keep-alive crossfades; each
\* keep-alive writes L_xf frames and discards the other available_samples - L_xf;
\* and fewer than 120 * sample_rate frames are processed without one.
KeepAliveCadence ==
    /\ [](trace.quiet_frames < 120 * sample_rate)
    /\ [][(Quiet /\ Quiet') =>
              /\ report'.flush \in {"none", "keepalive"}
              /\ report'.flush = "none" =>
                    /\ stdout' = stdout
                    /\ samples_written' = samples_written
                    /\ samples_discarded' = samples_discarded
              /\ report'.flush = "keepalive" =>
                    /\ Len(stdout') = Len(stdout) + 2 * crossfade_buff_len
                    /\ Take(stdout', Len(stdout)) = stdout
                    /\ samples_written' = samples_written + crossfade_buff_len
                    /\ samples_discarded' = samples_discarded
                            + report'.available_samples - crossfade_buff_len
                    /\ output_buffer_index'
                            = output_buffer_index + 1 - report'.available_samples]_vars

\* a skip of MUSIC 59 seconds after its last keep-alive, nothing written since
KeepAliveCadenceWitness ==
    /\ Quiet /\ current_mode = MODE_MUSIC
    /\ trace.quiet_frames >= 59 * sample_rate
    /\ samples_written >= crossfade_buff_len
    /\ report.available_samples >= 59 * sample_rate

\* the ring, the crossfade buffer and stdout as the flush of the frame being
\* processed finds them: after the splice, if the frame makes one into a skip
SplicedOff == IF report'.splice = "fade_out" THEN report'.crossfade_start ELSE 0
RingAtFlush == Drop(RingWithFrame, 2 * SplicedOff)
CrossfadeAtFlush ==
    IF report'.splice = "fade_out"
    THEN fade_out(Take(RingAtFlush, 2 * crossfade_buff_len))
    ELSE crossfade_buffer

\* the 2 * L_xf frames a keep-alive works on
KeepAliveRegion ==
    SubSeq(RingAtFlush,
           2 * (report'.available_samples \div 2 - crossfade_buff_len) + 1,
           2 * (report'.available_samples \div 2 + crossfade_buff_len))

\* half and a quarter of a sample, rounded down
HalfOf(x) == IF x >= 0 THEN x \div 2 ELSE -((1 - x) \div 2)
QuarterOf(x) == IF x >= 0 THEN x \div 4 ELSE -((3 - x) \div 4)

\* what a keep-alive writes and what it keeps for the next crossfade, given the
\* scaled frames
KeepAliveFrom(scaled) ==
    /\ report'.available_samples \div 2 - crossfade_buff_len >= 0
    /\ report'.available_samples \div 2 + crossfade_buff_len <= report'.available_samples
    /\ 2 * report'.available_samples <= Len(RingAtFlush)
    /\ SubSeq(stdout', Len(stdout') - 2 * crossfade_buff_len + 1, Len(stdout'))
          = MixWrapped(fade_in(Take(scaled, 2 * crossfade_buff_len)), CrossfadeAtFlush)
    /\ crossfade_buffer' = fade_out(Drop(scaled, 2 * crossfade_buff_len))

\* C29 as stated: a keep-alive scales the 2 * L_xf frames from ring frame
\* available_samples / 2 - L_xf on to half their amplitude before the fade-in
\* and the mix, and these frames lie within the first available_samples frames.
KeepAliveHalved ==
    [][report'.flush = "keepalive" =>
          KeepAliveFrom([i \in 1..(4 * crossfade_buff_len) |-> HalfOf(KeepAliveRegion[i])])]_vars

\* C29, amended: a keep-alive scales these frames to a quarter of their
\* amplitude, rounded down (each sample is shifted right by two bits), before
\* the fade-in and the mix, and they lie within the first available_samples
\* frames of the ring.
KeepAliveQuartered ==
    [][report'.flush = "keepalive" =>
          KeepAliveFrom([i \in 1..(4 * crossfade_buff_len) |-> QuarterOf(KeepAliveRegion[i])])]_vars

\* the second keep-alive of a skip: what it wrote ends in a sample other than 0,
\* and the tail it kept has negative samples
KeepAliveQuarteredWitness ==
    /\ report.flush = "keepalive" /\ report.splice = "none"
    /\ samples_written >= 2 * crossfade_buff_len
    /\ stdout[Len(stdout)] # 0
    /\ \E i \in 1..(2 * crossfade_buff_len) : crossfade_buffer[i] < -1
    /\ report.available_samples \div 2 > crossfade_buff_len

\* C30: the sums crossfade_ptr [i] + crossfade_buffer [i] of a keep-alive are all
\* within the int16 range, so that storing them changes none of them.
KeepAliveMixInRange ==
    report.flush = "keepalive" =>
        /\ report.mix_low >= -32768
        /\ report.mix_high <= 32767
        /\ \A i \in 1..(2 * crossfade_buff_len) :
              stdout[Len(stdout) - 2 * crossfade_buff_len + i] \in (report.mix_low)..(report.mix_high)

\* the first keep-alive of a skip, mixed with the full-scale tail the splice into
\* the skip had kept: sums near both ends of the range
KeepAliveMixInRangeWitness ==
    /\ report.flush = "keepalive"
    /\ report.mix_high > 30000 /\ report.mix_high <= 32767
    /\ report.mix_low < -30000 /\ report.mix_low >= -32768

\* the candidates of write_tensor_file whose output fits the scratch buffer
FittingMaxbits ==
    {m \in MinMaxbits..MaxMaxbits :
        Len(LzwEncode(TensorToBytes(gen_tensor), m)) <= Len(TensorToBytes(gen_tensor))}

\* C31: the payload write_tensor_file stores is the output of the candidate with
\* the smallest compressed size among those that fitted the scratch buffer; a
\* candidate whose writer wrapped is never selected, and the stored length is
\* the true compressed length
StoredSmallestFitting ==
    (tensor_file # <<>> /\ ~file_changed /\ FittingMaxbits # {}) =>
        \E m \in FittingMaxbits :
            /\ FilePayload = LzwEncode(TensorToBytes(gen_tensor), m)
            /\ \A k \in FittingMaxbits :
                  Len(FilePayload) <= Len(LzwEncode(TensorToBytes(gen_tensor), k))

\* C32: a streamer of size s >= 1 set up at index 0, wrapped 0 keeps index <= size
\* under any reads and writes; read alone, it returns its s bytes in order and
\* then EOF on every further read without advancing; written alone k times,
\* wrapped = 0 with index = size exactly when k = s, and wrapped > 0 exactly
\* when k > s
StreamContract ==
    streamer # <<>> =>
        LET k == Len(streamer.written)
            n == Len(streamer.returned)
            s == streamer.s.size
        IN  /\ streamer.s.index <= s
            /\ streamer.written = <<>> =>
                  /\ streamer.s.index = IF n < s THEN n ELSE s
                  /\ \A i \in 1..n :
                        streamer.returned[i] = IF i <= s THEN streamer.source[i] ELSE EOF
            /\ streamer.returned = <<>> =>
                  /\ (streamer.s.wrapped = 0 /\ streamer.s.index = s) <=> (k = s)
                  /\ (streamer.s.wrapped > 0) <=> (k > s)

\* a sink overrun by one byte, and a source read twice past its end
StreamContractWitness ==
    /\ streamer # <<>>
    /\ streamer.s.size = MaxStreamSize
    /\ \/ /\ streamer.returned = <<>>
          /\ Len(streamer.written) = MaxStreamSize + 1
          /\ streamer.s.wrapped = 1 /\ streamer.s.index = 1
       \/ /\ streamer.written = <<>>
          /\ Len(streamer.returned) = MaxStreamSize + 2
          /\ streamer.returned[MaxStreamSize + 2] = EOF

\* the cells of the tensor that tensor-gen -d<n> works on
CellsInBins == {c \in Cells : InBins(c, array_bins(gen_dimensions))}

\* C33: if a cell is non-zero after the fusion, then when the border-fill loop
\* has stopped no cell of the dimension-reduced tensor is left at 0
BorderFillComplete ==
    (pc = "broadcast" /\ \E c \in CellsInBins : gen_tensor[c] # 0) =>
        \A c \in CellsInBins : gen_tensor[c] # 0

\* C34: the border-fill loop ends within as many passes as the tensor has cells;
\* a pass computes every cell from the tensor the passes before it left, and
\* the loop stops at the first pass that changes no cell, and at no other
BorderFillTerminates ==
    /\ [](passes <= Cardinality(CellsInBins))
    /\ [][pc = "fill" =>
            /\ gen_tensor' = BorderFillPass(gen_tensor, array_bins(gen_dimensions))
            /\ passes' = passes + 1
            /\ (pc' = "broadcast") <=> (gen_tensor' = gen_tensor)
            /\ pc' \in {"fill", "broadcast"}]_vars

\* a one-axis tensor filled cell after cell: the loop has taken as many passes
\* as there are cells and has stopped with every cell filled
BorderFillTerminatesWitness ==
    /\ pc = "broadcast"
    /\ passes = Cardinality(CellsInBins)
    /\ passes >= 3
    /\ \A c \in CellsInBins : gen_tensor[c] # 0

\* round (10 * log10 (peak / trough)) kept within 0..95
ClampedRange(w) ==
    LET r == RangeOf(PeakOf(w), TroughOf(w))
    IN  IF r > 95 THEN 95 ELSE IF r < 0 THEN 0 ELSE r

\* C35: the range_dB of the result is round (10 * log10 (peak / trough)) kept
\* within 0..95, and the index into the 96 entries of peak_to_trough_histogram
\* is within 0..95, for every level window
RangeClamped ==
    (analysis # <<>> /\ analysis.pc = "return") =>
        /\ analysis.result.range_dB = ClampedRange(levels)
        /\ analysis.histogram_index \in 0..95

\* C36: in the walk over the window a trigger is stored at index cycles, which
\* is within 0..127, by the trough search when cycles is even and by the peak
\* search when it is odd, each store turning the one search into the other;
\* the cycle count goes up by one with a store, back by 2 when it comes to 128,
\* and is never above 128
CycleCap ==
    /\ [](analysis # <<>> =>
            /\ analysis.cycles \in 0..MAX_CYCLES
            /\ analysis.store_index \in -1..(MAX_CYCLES - 1)
            /\ Len(analysis.trigger_points) <= MAX_CYCLES)
    /\ [][(analysis # <<>> /\ analysis.pc = "walk" /\ analysis'.pc = "walk") =>
            IF analysis'.store_index = -1
            THEN /\ analysis'.cycles = analysis.cycles
                 /\ analysis'.trigger_points = analysis.trigger_points
            ELSE /\ analysis'.store_index = analysis.cycles
                 /\ analysis'.trigger_points[analysis.cycles + 1] =
                        IF analysis.cycles % 2 = 0 THEN analysis.prev_trough_pos
                        ELSE analysis.prev_peak_pos
                 /\ analysis'.cycles % 2 # analysis.cycles % 2
                 /\ analysis'.cycles = IF analysis.cycles + 1 = MAX_CYCLES
                                       THEN MAX_CYCLES - 2
                                       ELSE analysis.cycles + 1]_vars

\* the store at index 127 has just taken the count to 128 and back to 126
CycleCapWitness ==
    /\ analysis # <<>> /\ analysis.pc = "walk"
    /\ analysis.store_index = MAX_CYCLES - 1
    /\ analysis.cycles = MAX_CYCLES - 2
    /\ Len(analysis.trigger_points) = MAX_CYCLES

\* C37: the triggers stored are in non-decreasing order of position, so that no
\* attack or decay interval is negative, and attack_time + decay_time > 0
\* whenever cycles >= 4
TriggersOrdered ==
    analysis # <<>> =>
        /\ \A k \in 1..(analysis.cycles - 1) :
              analysis.trigger_points[k] <= analysis.trigger_points[k + 1]
        /\ (analysis.pc \in {"jitter", "return"} /\ analysis.cycles >= 4) =>
              analysis.intervals.attack_time + analysis.intervals.decay_time > 0

\* C38: with cycles >= 4 and a attack intervals, d decay intervals, a # d, the
\* ratio A / (A + D) is multiplied by (a + d) / (2 * max (a, d)), at most 1, so
\* that round (ratio * 255) is within 0..255
ImbalanceCorrection ==
    (analysis # <<>> /\ analysis.pc = "return" /\ analysis.cycles >= 4) =>
        /\ analysis.attack_ratio.num * AttackRatioByLarger(analysis.intervals).den
              = AttackRatioByLarger(analysis.intervals).num * analysis.attack_ratio.den
        /\ analysis.attack_int \in 0..255

\* C39: with cycles >= 4 the loop over the triggers counts at least one attack
\* interval and at least one decay interval, and analyze_window never leaves
\* through exit (1)
AttackAbortUnreachable ==
    analysis # <<>> =>
        /\ analysis.pc # "exit"
        /\ (analysis.pc \in {"jitter", "return"} /\ analysis.cycles >= 4) =>
              /\ analysis.intervals.attack_count >= 1
              /\ analysis.intervals.decay_count >= 1

\* four triggers, the fewest that are walked: one decay and one attack interval
AttackAbortUnreachableWitness ==
    /\ analysis # <<>> /\ analysis.pc = "jitter"
    /\ analysis.cycles = 4
    /\ analysis.intervals.attack_count = 1
    /\ analysis.intervals.decay_count = 1

\* the frame about to be stored fills the level buffer
FillsWindow == level_buffer_index + 1 = level_buff_len

\* n is level_buff_len + k * step_samples for some k = 0, 1, 2, ...
OnSchedule(n) == n >= level_buff_len /\ (n - level_buff_len) % step_samples = 0

\* C40: analyze_window runs at the frames that take num_samples to
\* level_buff_len + k * step_samples, k = 0, 1, 2, ..., and at no other, on a full
\* level buffer, which is then slid left by step_samples; after every frame
\* 0 <= level_buffer_index < level_buff_len; the state machine takes its first
\* step at the 25th window and one step at every window after it
WindowSchedule ==
    /\ [](pc = "loop" =>
            /\ level_buffer_index >= 0 /\ level_buffer_index < level_buff_len
            /\ num_windows = IF num_samples < level_buff_len THEN 0
                             ELSE (num_samples - level_buff_len) \div step_samples + 1
            /\ level_buffer_index =
                  IF num_samples < level_buff_len THEN num_samples
                  ELSE level_buff_len - step_samples
                           + ((num_samples - level_buff_len) % step_samples))
    /\ [][num_samples' = num_samples + 1 =>
            /\ FillsWindow <=> OnSchedule(num_samples')
            /\ report'.stepped <=> (FillsWindow /\ num_windows + 1 >= AVERAGE_COUNT)
            /\ (FillsWindow /\ pc' = "loop") =>
                  /\ level_buffer_index' = level_buff_len - step_samples
                  /\ num_windows' = num_windows + 1
            /\ ~FillsWindow =>
                  /\ level_buffer_index' = level_buffer_index + 1
                  /\ num_windows' = num_windows]_vars

\* the 25th window has just been analysed and the state machine has taken its
\* first step
WindowScheduleWitness ==
    /\ pc = "loop"
    /\ num_windows = AVERAGE_COUNT
    /\ report.stepped
    /\ num_samples = level_buff_len + (AVERAGE_COUNT - 1) * step_samples
    /\ level_buffer_index = level_buff_len - step_samples

====
